---- MODULE Spec2Model ----
(***************************************************************************)
(* Model of the marketplace plugin builder                                 *)
(* (scripts/plugin_builder_tui/builder.py, scripts/plugin-builder.py).     *)
(*                                                                         *)
(* The file system is the program's only state: a registry directory with  *)
(* one sub-directory per asset kind, and a plugins directory with one      *)
(* directory per plugin, each holding a manifest and one sub-directory per *)
(* asset kind whose entries are symbolic links, files or directories.      *)
(*                                                                         *)
(* Strings are sequences of one-character strings, so that the suffix      *)
(* handling (".md") and the substring test of rename_asset are computed    *)
(* the way the code computes them.                                         *)
(***************************************************************************)
EXTENDS Integers, Sequences, FiniteSets, TLC

VARIABLES
    root,       \* str(self.root): the marketplace root the builder was constructed with
    registry,   \* registry/<kind>/ : entry name -> "file" | "dir"
    plugins,    \* plugins/<dir name> : [manifest, dirs: kind -> entry name -> entry]
    last,       \* the last completed call: operation, arguments, outcome
    pre,        \* the file system as it was before the last call
    steps,      \* number of calls the run may still make
    run         \* the call in progress, when a call is followed statement by statement

vars == <<root, registry, plugins, last, pre, steps, run>>

-----------------------------------------------------------------------------
(* Strings *)

MD == <<".", "m", "d">>

\* Python: a in b
IsSubstring(a, b) ==
    \E i \in 0..(Len(b) - Len(a)) : SubSeq(b, i + 1, i + Len(a)) = a

\* Python: s.endswith(".md")
EndsWithMd(s) == Len(s) >= 3 /\ SubSeq(s, Len(s) - 2, Len(s)) = MD

\* Python: s.startswith(".")
IsHidden(s) == Len(s) >= 1 /\ s[1] = "."

\* index of the last "." of s that is neither its first nor its last character, or 0
SuffixDot(s) ==
    LET dots == {i \in 2..(Len(s) - 1) : s[i] = "."}
    IN  IF dots = {} THEN 0 ELSE CHOOSE i \in dots : \A j \in dots : j <= i

\* pathlib: PurePath.suffix
Suffix(s) == IF SuffixDot(s) = 0 THEN <<>> ELSE SubSeq(s, SuffixDot(s), Len(s))

\* pathlib: PurePath.stem
Stem(s) == IF SuffixDot(s) = 0 THEN s ELSE SubSeq(s, 1, SuffixDot(s) - 1)

\* Python: s.replace(".md", "")
RECURSIVE ReplaceMd(_)
ReplaceMd(s) ==
    IF Len(s) < 3 THEN s
    ELSE IF SubSeq(s, 1, 3) = MD THEN ReplaceMd(SubSeq(s, 4, Len(s)))
    ELSE <<s[1]>> \o ReplaceMd(Tail(s))

\* code points of the characters that occur in the model
CodePoint(c) ==
    CASE c = "." -> 46  [] c = "/" -> 47
      [] c = "a" -> 97  [] c = "c" -> 99  [] c = "d" -> 100 [] c = "e" -> 101
      [] c = "g" -> 103 [] c = "i" -> 105 [] c = "k" -> 107 [] c = "l" -> 108
      [] c = "m" -> 109 [] c = "n" -> 110 [] c = "o" -> 111 [] c = "p" -> 112
      [] c = "q" -> 113 [] c = "r" -> 114 [] c = "s" -> 115 [] c = "t" -> 116
      [] c = "u" -> 117 [] c = "w" -> 119 [] c = "x" -> 120 [] c = "y" -> 121
      [] c = "z" -> 122
      [] OTHER -> 0

\* Python: a < b on str
RECURSIVE StrLess(_, _)
StrLess(a, b) ==
    IF b = <<>> THEN FALSE
    ELSE IF a = <<>> THEN TRUE
    ELSE IF a[1] = b[1] THEN StrLess(Tail(a), Tail(b))
    ELSE CodePoint(a[1]) < CodePoint(b[1])

\* sorted(S) for a set of strings
RECURSIVE SortedStrs(_)
SortedStrs(S) ==
    IF S = {} THEN <<>>
    ELSE LET m == CHOOSE x \in S : \A y \in S \ {x} : StrLess(x, y)
         IN  <<m>> \o SortedStrs(S \ {m})

Range(s) == {s[i] : i \in DOMAIN s}

\* number of occurrences of v in sequence s
Count(s, v) == Cardinality({i \in DOMAIN s : s[i] = v})

-----------------------------------------------------------------------------
(* Asset kinds and the shape of the file system *)

COMMAND == <<"c", "o", "m", "m", "a", "n", "d", "s">>
AGENT   == <<"a", "g", "e", "n", "t", "s">>
SKILL   == <<"s", "k", "i", "l", "l", "s">>

\* list(AssetType), in definition order
AssetTypeList == <<COMMAND, AGENT, SKILL>>
AssetType == Range(AssetTypeList)

REGISTRYDIR == <<"r", "e", "g", "i", "s", "t", "r", "y">>
PLUGINSDIR  == <<"p", "l", "u", "g", "i", "n", "s">>
SEP == <<"/">>

\* a directory with no entries
EmptyDir == [n \in {} |-> "none"]

\* entries of a plugin's kind directory
NoTarget == [base |-> "none", kind |-> <<>>, name |-> <<>>]
FileEntry == [type |-> "file", target |-> NoTarget, form |-> "none"]
DirEntry  == [type |-> "dir", target |-> NoTarget, form |-> "none"]
\* a symbolic link to root/registry/<kind>/<name>, written as a relative path
RegLink(k, n) ==
    [type |-> "link", target |-> [base |-> "registry", kind |-> k, name |-> n],
     form |-> "relative"]
\* a symbolic link to an existing path <name> that is not under root/registry
OutLink(n) ==
    [type |-> "link", target |-> [base |-> "outside", kind |-> <<>>, name |-> n],
     form |-> "relative"]
\* a symbolic link to a path <name> outside the registry that does not exist
VoidLink(n) ==
    [type |-> "link", target |-> [base |-> "void", kind |-> <<>>, name |-> n],
     form |-> "relative"]
\* a symbolic link to root/registry/<kind>/<name>, written as an absolute path
AbsLink(k, n) == [RegLink(k, n) EXCEPT !.form = "absolute"]

\* plugin.json: parseable with its name, description and version; absent; unparseable
Manifest(n, d, v) == [status |-> "ok", name |-> n, description |-> d, version |-> v]
OkManifest(n) == Manifest(n, "", "1.0.0")
NoManifest  == [status |-> "none", name |-> <<>>, description |-> "", version |-> ""]
BadManifest == [status |-> "bad", name |-> <<>>, description |-> "", version |-> ""]

\* lines 327-344: the directory create_plugin makes
NewPluginDir_NoDescription(name, description) ==
    [manifest |-> Manifest(name, "", "1.0.0"), dirs |-> [k \in AssetType |-> EmptyDir]]

NewPluginDir(name, description) ==
    [manifest |-> Manifest(name, description, "1.0.0"),
     dirs |-> [k \in AssetType |-> EmptyDir]]

\* remove entry n from directory d / put entry e under name n
DirRemove(d, n) == [m \in (DOMAIN d) \ {n} |-> d[m]]
DirPut(d, n, e) == [m \in (DOMAIN d) \cup {n} |-> IF m = n THEN e ELSE d[m]]

\* Path.is_symlink() of an entry of a plugin kind directory
IsSymlink(e) == e.type = "link"

\* Path.exists() of the path a link points at
TargetExists(reg, t) ==
    \/ t.base = "outside"
    \/ t.base = "registry" /\ t.kind \in AssetType /\ t.name \in DOMAIN reg[t.kind]

\* Path.exists() of plugins/<p>/<k>/<n>: follows symbolic links
EntryExists(reg, plg, p, k, n) ==
    /\ p \in DOMAIN plg
    /\ n \in DOMAIN plg[p].dirs[k]
    /\ LET e == plg[p].dirs[k][n]
       IN  IsSymlink(e) => TargetExists(reg, e.target)

\* Path.is_file() / Path.is_dir() of an existing entry: follow symbolic links
EntryIsFile(reg, e) ==
    \/ e.type = "file"
    \/ /\ IsSymlink(e)
       /\ \/ e.target.base = "outside"
          \/ e.target.base = "registry" /\ TargetExists(reg, e.target)
                /\ reg[e.target.kind][e.target.name] = "file"

EntryIsDir(reg, e) ==
    \/ e.type = "dir"
    \/ /\ IsSymlink(e)
       /\ e.target.base = "registry" /\ TargetExists(reg, e.target)
       /\ reg[e.target.kind][e.target.name] = "dir"

\* os.readlink of a link: the relative path add_asset_to_plugin writes for a
\* link into the registry, the target's name for a link that leaves it
RawTarget(e) ==
    IF e.target.base = "registry"
    THEN (IF e.form = "absolute" THEN <<"/", "r", "/">>
          ELSE <<".", ".", "/", ".", ".", "/", ".", ".", "/">>)
            \o REGISTRYDIR \o SEP \o e.target.kind \o SEP \o e.target.name
    ELSE e.target.name

\* str(plugins_dir / plugin / kind / entry)
PathStr(rt, p, k, n) == rt \o SEP \o PLUGINSDIR \o SEP \o p \o SEP \o k \o SEP \o n

-----------------------------------------------------------------------------
(* Read side: catalogs, usage index, validation *)

\* the root goes through /l, which is a symbolic link to a directory that
\* lies deeper in the filesystem than /l itself
ThroughLink(rt) == IsSubstring(<<"/", "l", "/">>, rt)

\* the root is an absolute path with no symbolic link in it, so that
\* Path.resolve() of a registry entry is a path under self.registry_dir
RootIsResolved(rt) == Len(rt) >= 1 /\ rt[1] = "/" /\ ~ThroughLink(rt)

\* order of two assets under key (a.asset_type.value, a.name); path breaks ties
AssetLess(a, b) ==
    \/ StrLess(a.asset_type, b.asset_type)
    \/ a.asset_type = b.asset_type /\ StrLess(a.name, b.name)
    \/ a.asset_type = b.asset_type /\ a.name = b.name /\ StrLess(a.path, b.path)

RECURSIVE SortedAssets(_)
SortedAssets(S) ==
    IF S = {} THEN <<>>
    ELSE LET m == CHOOSE x \in S : \A y \in S \ {x} : AssetLess(x, y)
         IN  <<m>> \o SortedAssets(S \ {m})

\* the Asset records of one registry kind directory
AssetsOfType(reg, k) ==
    {[name |-> IF reg[k][n] = "file" THEN Stem(n) ELSE n, asset_type |-> k, path |-> n] :
        n \in {m \in DOMAIN reg[k] :
                 /\ ~IsHidden(m)
                 /\ \/ reg[k][m] = "file" /\ Suffix(m) = MD
                    \/ reg[k][m] = "dir"}}

\* PluginBuilder.get_registry_assets(asset_type) for a set of kinds
get_registry_assets(reg, types) ==
    SortedAssets(UNION {AssetsOfType(reg, k) : k \in types})

\* PluginBuilder._list_plugin_assets: the names in one kind directory of a plugin
_list_plugin_assets(reg, d) ==
    LET NameOf(n) ==
            IF EntryIsFile(reg, d[n]) /\ Suffix(n) = MD THEN {Stem(n)}
            ELSE IF EntryIsDir(reg, d[n]) \/ IsSymlink(d[n])
                 THEN {IF EndsWithMd(n) THEN SubSeq(n, 1, Len(n) - 3) ELSE n}
                 ELSE {}
    IN  SortedStrs(UNION {NameOf(n) : n \in {m \in DOMAIN d : ~IsHidden(m)}})

\* the Plugin record get_plugins builds for plugin directory dn
PluginOf(reg, plg, dn) ==
    [name  |-> plg[dn].manifest.name,
     description |-> plg[dn].manifest.description,
     version |-> plg[dn].manifest.version,
     dir   |-> dn,
     lists |-> [k \in AssetType |-> _list_plugin_assets(reg, plg[dn].dirs[k])]]

PluginLess(a, b) ==
    \/ StrLess(a.name, b.name)
    \/ a.name = b.name /\ StrLess(a.dir, b.dir)

RECURSIVE SortedPlugins(_)
SortedPlugins(S) ==
    IF S = {} THEN <<>>
    ELSE LET m == CHOOSE x \in S : \A y \in S \ {x} : PluginLess(x, y)
         IN  <<m>> \o SortedPlugins(S \ {m})

\* PluginBuilder.get_plugins: directories with a parseable manifest, sorted by name
get_plugins_KeepUnparseable(reg, plg) ==
    SortedPlugins({PluginOf(reg, plg, dn) :
        dn \in {d \in DOMAIN plg : ~IsHidden(d) /\ plg[d].manifest.status # "none"}})

get_plugins(reg, plg) ==
    SortedPlugins({PluginOf(reg, plg, dn) :
        dn \in {d \in DOMAIN plg : ~IsHidden(d) /\ plg[d].manifest.status = "ok"}})

\* f"{kind}:{name}"
UsageKey(k, n) == k \o <<":">> \o n

\* the Plugin of get_plugins named pn, as a membership test
Membership(reg, plg, pn, k) ==
    UNION {Range(pl.lists[k]) : pl \in {q \in Range(get_plugins(reg, plg)) : q.name = pn}}

\* lines 245-259 with the kind of a membership list left out of the key
get_usage_info_AnyKind(reg, plg) ==
    LET assets == Range(get_registry_assets(reg, AssetType))
        keys == {UsageKey(a.asset_type, a.name) : a \in assets}
        pls == get_plugins(reg, plg)
        AssetOfKey(key) == CHOOSE a \in assets : UsageKey(a.asset_type, a.name) = key
        Uses(pl, key) ==
            \E k \in AssetType, k2 \in AssetType :
                \E n \in Range(pl.lists[k]) : UsageKey(k2, n) = key
        Names(s) == [i \in DOMAIN s |-> s[i].name]
    IN  [key \in keys |->
            [asset_name |-> AssetOfKey(key).name,
             asset_type |-> AssetOfKey(key).asset_type,
             plugins    |-> Names(SelectSeq(pls, LAMBDA pl : Uses(pl, key)))]]

\* PluginBuilder.get_usage_info: key -> UsageInfo
get_usage_info(reg, plg) ==
    LET assets == Range(get_registry_assets(reg, AssetType))
        keys == {UsageKey(a.asset_type, a.name) : a \in assets}
        pls == get_plugins(reg, plg)
        AssetOfKey(key) == CHOOSE a \in assets : UsageKey(a.asset_type, a.name) = key
        Uses(pl, key) == \E k \in AssetType : \E n \in Range(pl.lists[k]) : UsageKey(k, n) = key
        Names(s) == [i \in DOMAIN s |-> s[i].name]
    IN  [key \in keys |->
            [asset_name |-> AssetOfKey(key).name,
             asset_type |-> AssetOfKey(key).asset_type,
             plugins    |-> Names(SelectSeq(pls, LAMBDA pl : Uses(pl, key)))]]

\* UsageInfo.usage_count, is_orphan, is_shared
usage_count(u) == Len(u.plugins)
is_orphan(u) == usage_count(u) = 0
is_shared(u) == usage_count(u) > 1

\* a sequence without the repetitions of its elements, in order of first occurrence
RECURSIVE Distinct(_)
Distinct(s) ==
    IF s = <<>> THEN <<>>
    ELSE <<s[1]>> \o Distinct(SelectSeq(Tail(s), LAMBDA x : x # s[1]))

\* usage.values(): the UsageInfo of each key, in the order the keys were inserted
UsageValues(reg, plg) ==
    LET assets == get_registry_assets(reg, AssetType)
        usage == get_usage_info(reg, plg)
        keys == Distinct([i \in DOMAIN assets |->
                            UsageKey(assets[i].asset_type, assets[i].name)])
    IN  [i \in DOMAIN keys |-> usage[keys[i]]]

\* PluginBuilder.get_orphans: the assets whose usage entry lists no plugin
get_orphans(reg, plg) ==
    LET usage == get_usage_info(reg, plg)
        key(a) == UsageKey(a.asset_type, a.name)
    IN  SelectSeq(get_registry_assets(reg, AssetType),
                  LAMBDA a : key(a) \in DOMAIN usage /\ is_orphan(usage[key(a)]))

\* PluginBuilder.get_shared_assets: the usage entries that list several plugins
get_shared_assets(reg, plg) ==
    SelectSeq(UsageValues(reg, plg), is_shared)

\* PluginBuilder.get_stats: the counts (sizes are not part of the model)
get_stats(reg, plg) ==
    LET assets == get_registry_assets(reg, AssetType)
        OfType(k) == SelectSeq(assets, LAMBDA a : a.asset_type = k)
        values == UsageValues(reg, plg)
    IN  [total_assets |-> Len(assets),
         commands |-> Len(OfType(COMMAND)),
         agents   |-> Len(OfType(AGENT)),
         skills   |-> Len(OfType(SKILL)),
         plugins  |-> Len(get_plugins(reg, plg)),
         orphans  |-> Len(SelectSeq(values, is_orphan)),
         shared   |-> Len(SelectSeq(values, is_shared))]

\* the ValidationIssue validate() appends for one entry, as a sequence of 0 or 1 issues
IssuesOfItem(rt, reg, pn, k, n, e) ==
    IF ~IsSymlink(e) THEN <<>>
    ELSE IF ~TargetExists(reg, e.target)
         THEN <<[plugin |-> pn, kind |-> k, name |-> n, issue_type |-> "broken"]>>
         ELSE IF e.target.base = "registry" /\ RootIsResolved(rt)
              THEN <<>>
              ELSE <<[plugin |-> pn, kind |-> k, name |-> n, issue_type |-> "warning"]>>

RECURSIVE IssuesOfItems(_, _, _, _, _, _)
IssuesOfItems(rt, reg, pn, k, d, ns) ==
    IF ns = <<>> THEN <<>>
    ELSE IssuesOfItem(rt, reg, pn, k, ns[1], d[ns[1]])
            \o IssuesOfItems(rt, reg, pn, k, d, Tail(ns))

RECURSIVE IssuesOfTypes(_, _, _, _, _)
IssuesOfTypes(rt, reg, plg, pn, ks) ==
    IF ks = <<>> THEN <<>>
    ELSE IssuesOfItems(rt, reg, pn, ks[1], plg[pn].dirs[ks[1]],
                       SortedStrs(DOMAIN plg[pn].dirs[ks[1]]))
            \o IssuesOfTypes(rt, reg, plg, pn, Tail(ks))

RECURSIVE IssuesOfPlugins(_, _, _, _)
IssuesOfPlugins(rt, reg, plg, pls) ==
    IF pls = <<>> THEN <<>>
    ELSE (IF pls[1].name \in DOMAIN plg
          THEN IssuesOfTypes(rt, reg, plg, pls[1].name, AssetTypeList)
          ELSE <<>>)
            \o IssuesOfPlugins(rt, reg, plg, Tail(pls))

\* PluginBuilder.validate: (is_valid, issues)
validate(rt, reg, plg) ==
    LET issues == IssuesOfPlugins(rt, reg, plg, get_plugins(reg, plg))
    IN  [is_valid |-> ~\E i \in DOMAIN issues : issues[i].issue_type = "broken",
         issues   |-> issues]

\* the 'broken' issues of validate()
BrokenIssues(rt, reg, plg) ==
    SelectSeq(validate(rt, reg, plg).issues, LAMBDA i : i.issue_type = "broken")

-----------------------------------------------------------------------------
(* Outcomes of a call *)

\* a return value; an exception with its message; an exception whose message
\* lists names
Returned(v) ==
    [status |-> "returned", value |-> v, exc |-> "", msg |-> "", detail |-> <<>>]
Raised(e, m) ==
    [status |-> "raised", value |-> <<>>, exc |-> e, msg |-> m, detail |-> <<>>]
RaisedNaming(e, m, names) ==
    [status |-> "raised", value |-> <<>>, exc |-> e, msg |-> m, detail |-> names]

\* what a call leaves behind: the file system and the outcome
Outcome(reg, plg, res) == [reg |-> reg, plg |-> plg, result |-> res]

\* plugins with kind directory k of plugin p replaced by d
WithDir(plg, p, k, d) ==
    [plg EXCEPT ![p] = [@ EXCEPT !.dirs = [@ EXCEPT ![k] = d]]]

-----------------------------------------------------------------------------
(* Mutators *)

\* lines 324-325 moved behind the writes: the error is raised over a rewritten plugin
create_plugin_CheckLast(reg, plg, name, description) ==
    IF name \in DOMAIN plg
    THEN Outcome(reg, [plg EXCEPT ![name] = NewPluginDir(name, description)],
                 Raised("ValueError", "already exists"))
    ELSE Outcome(reg,
                 [p \in (DOMAIN plg) \cup {name} |->
                     IF p = name THEN NewPluginDir(name, description) ELSE plg[p]],
                 Returned([name |-> name, description |-> description]))

\* PluginBuilder.create_plugin
create_plugin(reg, plg, name, description) ==
    IF name \in DOMAIN plg
    THEN Outcome(reg, plg, Raised("ValueError", "already exists"))
    ELSE Outcome(reg,
                 [p \in (DOMAIN plg) \cup {name} |->
                     IF p = name THEN NewPluginDir(name, description) ELSE plg[p]],
                 Returned([name |-> name, description |-> description]))

\* the registry entry add_asset_to_plugin / delete_asset / rename_asset resolve a name to:
\* <name>, else <name>.md, else nothing (<<>>)
FindInRegistry(reg, k, name) ==
    IF name \in DOMAIN reg[k] THEN name
    ELSE IF (name \o MD) \in DOMAIN reg[k] THEN name \o MD
    ELSE <<>>

\* lines 369-372: the name of the link, registry_path.name for a file, else asset_name
AddTargetName_DoubleExt(reg, asset_type, registry_path, asset_name) ==
    IF reg[asset_type][registry_path] = "file" THEN registry_path \o MD ELSE asset_name

AddTargetName(reg, asset_type, registry_path, asset_name) ==
    IF reg[asset_type][registry_path] = "file" THEN registry_path ELSE asset_name

\* PluginBuilder.add_asset_to_plugin
add_asset_to_plugin(reg, plg, plugin_name, asset_name, asset_type) ==
    IF plugin_name \notin DOMAIN plg
    THEN Outcome(reg, plg, Raised("ValueError", "plugin does not exist"))
    ELSE LET registry_path == FindInRegistry(reg, asset_type, asset_name)
         IN  IF registry_path = <<>>
             THEN Outcome(reg, plg, Raised("ValueError", "asset not found"))
             ELSE LET target_path ==
                          AddTargetName(reg, asset_type, registry_path, asset_name)
                      d == plg[plugin_name].dirs[asset_type]
                  IN  IF EntryExists(reg, plg, plugin_name, asset_type, target_path)
                      THEN Outcome(reg, plg, Returned(FALSE))
                      ELSE IF target_path \in DOMAIN d
                           \* os.symlink over a dangling link
                           THEN Outcome(reg, plg, Raised("FileExistsError", "symlink"))
                           ELSE Outcome(reg,
                                        WithDir(plg, plugin_name, asset_type,
                                                DirPut(d, target_path,
                                                       RegLink(asset_type, registry_path))),
                                        Returned(TRUE))

\* lines 392-394: the entry to remove, <asset_name> if it exists, else <asset_name>.md
RemoveTargetName_NoFallback(reg, plg, plugin_name, asset_type, asset_name) ==
    asset_name

RemoveTargetName(reg, plg, plugin_name, asset_type, asset_name) ==
    IF EntryExists(reg, plg, plugin_name, asset_type, asset_name)
    THEN asset_name ELSE asset_name \o MD

\* PluginBuilder.remove_asset_from_plugin
remove_asset_from_plugin(reg, plg, plugin_name, asset_name, asset_type) ==
    IF plugin_name \notin DOMAIN plg
    THEN Outcome(reg, plg, Raised("ValueError", "plugin does not exist"))
    ELSE LET d == plg[plugin_name].dirs[asset_type]
             target_path ==
                 RemoveTargetName(reg, plg, plugin_name, asset_type, asset_name)
         IN  IF ~EntryExists(reg, plg, plugin_name, asset_type, target_path)
             THEN Outcome(reg, plg, Returned(FALSE))
             ELSE Outcome(reg,
                          WithDir(plg, plugin_name, asset_type, DirRemove(d, target_path)),
                          Returned(TRUE))

\* a source path handed to add_to_registry: [type: "file" | "dir" | "missing", name]
\* an optional name: [given, val]
NoName == [given |-> FALSE, val |-> <<>>]
SomeName(n) == [given |-> TRUE, val |-> n]

\* PluginBuilder.add_to_registry
add_to_registry(reg, plg, source_path, asset_type, name_arg) ==
    IF source_path.type = "missing"
    THEN Outcome(reg, plg, Raised("ValueError", "source does not exist"))
    ELSE LET name == IF name_arg.given THEN name_arg.val
                     ELSE IF source_path.type = "file"
                          THEN Stem(source_path.name) ELSE source_path.name
             target_path == IF source_path.type = "file" THEN source_path.name ELSE name
         IN  IF target_path \in DOMAIN reg[asset_type]
             THEN Outcome(reg, plg, Raised("ValueError", "asset already exists"))
             ELSE Outcome([reg EXCEPT ![asset_type] =
                               DirPut(@, target_path, source_path.type)],
                          plg,
                          Returned([name |-> name, asset_type |-> asset_type,
                                    path |-> target_path]))

\* the directories the loops of delete_asset / rename_asset visit:
\* plugins_dir / plugin.name for the plugins of get_plugins, where it exists
ListedDirs_None(reg, plg) == {}

ListedDirs(reg, plg) ==
    {pl.name : pl \in Range(get_plugins(reg, plg))} \cap DOMAIN plg

\* line 448: the delete is refused
DeleteBlocked_Inverted(usage, key, force) ==
    key \in DOMAIN usage /\ usage[key].plugins # <<>> /\ force

DeleteBlocked(usage, key, force) ==
    key \in DOMAIN usage /\ usage[key].plugins # <<>> /\ ~force

\* PluginBuilder.delete_asset, lines 462-475: kind directory d without the links
\* that resolve to the asset's registry path
WithoutLinksTo_Keep(d, asset_type, asset_path) == d

WithoutLinksTo(d, asset_type, asset_path) ==
    LET gone == {n \in DOMAIN d :
                    IsSymlink(d[n]) /\ d[n].target = RegLink(asset_type, asset_path).target}
    IN  [n \in (DOMAIN d) \ gone |-> d[n]]

\* PluginBuilder.delete_asset
delete_asset(reg, plg, asset_name, asset_type, force) ==
    LET usage == get_usage_info(reg, plg)
        key == UsageKey(asset_type, asset_name)
    IN  IF DeleteBlocked(usage, key, force)
        THEN Outcome(reg, plg,
                     RaisedNaming("ValueError", "asset is used by plugins",
                                  usage[key].plugins))
        ELSE LET asset_path == FindInRegistry(reg, asset_type, asset_name)
                 listed == ListedDirs(reg, plg)
             IN  IF asset_path = <<>>
                 THEN Outcome(reg, plg, Raised("ValueError", "asset not found"))
                 ELSE Outcome(
                        [reg EXCEPT ![asset_type] = DirRemove(@, asset_path)],
                        [p \in DOMAIN plg |->
                            IF p \in listed
                            THEN [plg[p] EXCEPT !.dirs = [@ EXCEPT ![asset_type] =
                                        WithoutLinksTo(@, asset_type, asset_path)]]
                            ELSE plg[p]],
                        Returned("None"))

\* PluginBuilder.rename_asset, lines 563-580: one item of the directory listing.
\* d is the kind directory as it is when the item is reached.
RenameItem_NoRelink(rt, reg, pn, k, d, n, old_path, old_name, new_name, new_path) ==
    IF n \notin DOMAIN d \/ ~IsSymlink(d[n]) THEN d
    ELSE IF \/ d[n].target = RegLink(k, old_path).target
            \/ ~TargetExists(reg, d[n].target)
                  /\ IsSubstring(old_name, PathStr(rt, pn, k, n))
         THEN DirRemove(d, n)
         ELSE d

RenameItem(rt, reg, pn, k, d, n, old_path, old_name, new_name, new_path) ==
    IF n \notin DOMAIN d \/ ~IsSymlink(d[n]) THEN d
    ELSE LET target == d[n].target
             matched ==
                 \/ target = RegLink(k, old_path).target
                 \/ ~TargetExists(reg, target) /\ IsSubstring(old_name, PathStr(rt, pn, k, n))
             unlinked == DirRemove(d, n)
             new_link_name == IF Suffix(new_path) = MD THEN new_name \o MD ELSE new_name
         IN  IF ~matched THEN d
             ELSE IF new_link_name \in DOMAIN unlinked
                  THEN unlinked      \* os.symlink raises FileExistsError, swallowed
                  ELSE DirPut(unlinked, new_link_name, RegLink(k, new_path))

\* the items of one directory listing, in listing order ns
RECURSIVE RenameItems(_, _, _, _, _, _, _, _, _, _)
RenameItems(rt, reg, pn, k, d, ns, old_path, old_name, new_name, new_path) ==
    IF ns = <<>> THEN d
    ELSE RenameItems(rt, reg, pn, k,
                     RenameItem(rt, reg, pn, k, d, ns[1], old_path, old_name, new_name, new_path),
                     Tail(ns), old_path, old_name, new_name, new_path)

\* the loop over get_plugins(), lines 556-580
RECURSIVE RenameInPlugins(_, _, _, _, _, _, _, _, _)
RenameInPlugins(rt, reg, plg, pls, k, old_path, old_name, new_name, new_path) ==
    IF pls = <<>> THEN plg
    ELSE LET pn == pls[1].name
             plg1 == IF pn \notin DOMAIN plg THEN plg
                     ELSE WithDir(plg, pn, k,
                                  RenameItems(rt, reg, pn, k, plg[pn].dirs[k],
                                              SortedStrs(DOMAIN plg[pn].dirs[k]),
                                              old_path, old_name, new_name, new_path))
         IN  RenameInPlugins(rt, reg, plg1, Tail(pls), k,
                             old_path, old_name, new_name, new_path)

\* PluginBuilder.rename_asset
rename_asset(rt, reg, plg, old_name, new_name, asset_type) ==
    LET old_path == FindInRegistry(reg, asset_type, old_name)
    IN  IF old_path = <<>>
        THEN Outcome(reg, plg, Raised("ValueError", "asset not found"))
        ELSE LET new_path == IF reg[asset_type][old_path] = "file"
                             THEN new_name \o MD ELSE new_name
             IN  IF new_path \in DOMAIN reg[asset_type]
                 THEN Outcome(reg, plg, Raised("ValueError", "asset already exists"))
                 ELSE LET reg1 == [reg EXCEPT ![asset_type] =
                                      DirPut(DirRemove(@, old_path), new_path,
                                             reg[asset_type][old_path])]
                      IN  Outcome(reg1,
                                  RenameInPlugins(rt, reg1, plg, get_plugins(reg1, plg),
                                                  asset_type, old_path, old_name,
                                                  new_name, new_path),
                                  Returned("None"))

\* lines 598-600: plugin.json with its name field rewritten
RenamedManifest_Stale(manifest, new_name) == manifest

RenamedManifest(manifest, new_name) == [manifest EXCEPT !.name = new_name]

\* PluginBuilder.rename_plugin
rename_plugin(reg, plg, old_name, new_name) ==
    IF old_name \notin DOMAIN plg
    THEN Outcome(reg, plg, Raised("ValueError", "plugin not found"))
    ELSE IF new_name \in DOMAIN plg
    THEN Outcome(reg, plg, Raised("ValueError", "plugin already exists"))
    ELSE LET moved == [p \in ((DOMAIN plg) \ {old_name}) \cup {new_name} |->
                          IF p = new_name THEN plg[old_name] ELSE plg[p]]
         IN  CASE plg[old_name].manifest.status = "none" ->
                    Outcome(reg, moved, Returned("None"))
               [] plg[old_name].manifest.status = "bad" ->
                    \* json.loads raises after the directory has been renamed
                    Outcome(reg, moved, Raised("JSONDecodeError", "plugin.json"))
               [] OTHER ->
                    Outcome(reg,
                            [moved EXCEPT ![new_name] =
                                [@ EXCEPT !.manifest = RenamedManifest(@, new_name)]],
                            Returned("None"))

-----------------------------------------------------------------------------
(* Repair (plugin-builder.py, cmd_repair) *)

\* lines 435-443: the registry entry a broken link is matched to, or <<>>
MatchedAsset_Unchecked(reg, asset_type_name, target_name) == target_name

MatchedAsset(reg, asset_type_name, target_name) ==
    LET potential_paths ==
            <<target_name>>
            \o (IF ~EndsWithMd(target_name) THEN <<target_name \o MD>> ELSE <<>>)
            \o (IF EndsWithMd(target_name) THEN <<ReplaceMd(target_name)>> ELSE <<>>)
        hits == {i \in DOMAIN potential_paths :
                    potential_paths[i] \in DOMAIN reg[asset_type_name]}
    IN  IF hits = {} THEN <<>>
        ELSE potential_paths[CHOOSE i \in hits : \A j \in hits : i <= j]

\* lines 411-412: the issues the loop of cmd_repair does not skip
IsBrokenIssue_Any(issue) == TRUE

IsBrokenIssue(issue) == issue.issue_type = "broken"

\* the loop of cmd_repair over the issues of validate(); acc = [plg, broken, fixed, removed]
RECURSIVE RepairIssues(_, _, _, _, _)
RepairIssues(reg, acc, issues, dry_run, remove_only) ==
    IF issues = <<>> THEN acc
    ELSE LET issue == issues[1]
             rest == Tail(issues)
         IN  IF ~IsBrokenIssue(issue)
             THEN RepairIssues(reg, acc, rest, dry_run, remove_only)
             ELSE LET acc1 == [acc EXCEPT !.broken = @ + 1]
                      d == acc.plg[issue.plugin].dirs[issue.kind]
                  IN  IF issue.name \notin DOMAIN d \/ ~IsSymlink(d[issue.name])
                      THEN RepairIssues(reg, acc1, rest, dry_run, remove_only)
                      ELSE LET matched_asset ==
                                   MatchedAsset(reg, issue.kind, d[issue.name].target.name)
                           IN  IF matched_asset # <<>> /\ ~remove_only
                               THEN RepairIssues(reg,
                                      [acc1 EXCEPT
                                         !.fixed = @ + 1,
                                         !.plg = IF dry_run THEN @
                                                 ELSE WithDir(@, issue.plugin, issue.kind,
                                                         DirPut(d, issue.name,
                                                            RegLink(issue.kind, matched_asset)))],
                                      rest, dry_run, remove_only)
                               ELSE RepairIssues(reg,
                                      [acc1 EXCEPT
                                         !.removed = @ + 1,
                                         !.plg = IF dry_run THEN @
                                                 ELSE WithDir(@, issue.plugin, issue.kind,
                                                         DirRemove(d, issue.name))],
                                      rest, dry_run, remove_only)

\* cmd_repair
cmd_repair_DryRunWrites(rt, reg, plg, dry_run, remove_only) ==
    LET acc == RepairIssues(reg, [plg |-> plg, broken |-> 0, fixed |-> 0, removed |-> 0],
                            validate(rt, reg, plg).issues, FALSE, remove_only)
    IN  Outcome(reg, acc.plg,
                Returned([broken |-> acc.broken, fixed |-> acc.fixed,
                          removed |-> acc.removed]))

cmd_repair(rt, reg, plg, dry_run, remove_only) ==
    LET acc == RepairIssues(reg, [plg |-> plg, broken |-> 0, fixed |-> 0, removed |-> 0],
                            validate(rt, reg, plg).issues, dry_run, remove_only)
    IN  Outcome(reg, acc.plg,
                Returned([broken |-> acc.broken, fixed |-> acc.fixed,
                          removed |-> acc.removed]))

-----------------------------------------------------------------------------
(* Rebuild (plugin-builder.py, cmd_rebuild) *)

\* lines 500-506: what the loop leaves at one entry of a kind directory. A
\* link that resolves is recreated with os.path.relpath(item.resolve(),
\* item.parent): relpath makes item.parent absolute without resolving it, so
\* under a root that goes through a symbolic link of another depth the
\* relative path climbs to the wrong directory and the new link dangles
RebuildItem_Copy(rt, reg, e) ==
    IF IsSymlink(e) /\ TargetExists(reg, e.target)
    THEN IF EntryIsDir(reg, e) THEN DirEntry ELSE FileEntry
    ELSE e

RebuildItem(rt, reg, e) ==
    IF IsSymlink(e) /\ TargetExists(reg, e.target)
    THEN IF ThroughLink(rt) THEN VoidLink(e.target.name)
         ELSE [e EXCEPT !.form = "relative"]
    ELSE e

\* cmd_rebuild; plugin_arg is args.plugin
cmd_rebuild(rt, reg, plg, plugin_arg) ==
    LET all == get_plugins(reg, plg)
        selected == IF plugin_arg = NoName THEN all
                    ELSE SelectSeq(all, LAMBDA p : p.name = plugin_arg.val)
        names == {selected[i].name : i \in DOMAIN selected}
    IN  IF plugin_arg # NoName /\ selected = <<>>
        THEN Outcome(reg, plg, Raised("ValueError", "Plugin not found"))
        ELSE Outcome(reg,
                     [d \in DOMAIN plg |->
                        IF d \in names
                        THEN [plg[d] EXCEPT !.dirs =
                                [k \in AssetType |->
                                   [n \in DOMAIN plg[d].dirs[k] |->
                                      RebuildItem(rt, reg, plg[d].dirs[k][n])]]]
                        ELSE plg[d]],
                     Returned("None"))

-----------------------------------------------------------------------------
(* Migration (migrate-to-registry.py, main) *)

\* lines 45-56: the items phase 1 visits, in order: plugin directories sorted
\* and not hidden, kinds in the order of the list literal, entries sorted
MigrateItems(plg) ==
    LET pns == SelectSeq(SortedStrs(DOMAIN plg), LAMBDA p : ~IsHidden(p))
        OfKind(pn, k) == LET ns == SortedStrs(DOMAIN plg[pn].dirs[k])
                         IN  [i \in DOMAIN ns |-> <<pn, k, ns[i]>>]
        OfPlugin(pn) == OfKind(pn, COMMAND) \o OfKind(pn, AGENT) \o OfKind(pn, SKILL)
        Upto[i \in 0..Len(pns)] == IF i = 0 THEN <<>> ELSE Upto[i - 1] \o OfPlugin(pns[i])
    IN  Upto[Len(pns)]

\* lines 57-71: the asset name of a plugin entry that is migrated, or <<>>
\* for an entry that is skipped (hidden, a symbolic link, a file without .md)
MigratedName(n, e) ==
    IF IsHidden(n) \/ IsSymlink(e) THEN <<>>
    ELSE IF e.type = "file" THEN (IF Suffix(n) = MD THEN Stem(n) ELSE <<>>)
    ELSE n

\* lines 73-90: phase 1 over the items; acc = [reg, plg, registered], where
\* registered[kind][name] = [dest, from]: the registry entry and the plugin
\* whose copy was moved there
RECURSIVE MigratePhase1(_, _)
MigratePhase1(acc, items) ==
    IF items = <<>> THEN acc
    ELSE LET pn == items[1][1]
             k == items[1][2]
             n == items[1][3]
             e == acc.plg[pn].dirs[k][n]
             name == MigratedName(n, e)
             gone == WithDir(acc.plg, pn, k, DirRemove(acc.plg[pn].dirs[k], n))
         IN  IF name = <<>> THEN MigratePhase1(acc, Tail(items))
             ELSE IF name \in DOMAIN acc.registered[k]
                  THEN MigratePhase1([acc EXCEPT !.plg = gone], Tail(items))
                  ELSE MigratePhase1(
                         [reg |-> [acc.reg EXCEPT ![k] = DirPut(@, n, e.type)],
                          plg |-> gone,
                          registered |-> [acc.registered EXCEPT ![k] =
                                            DirPut(@, name, [dest |-> n, from |-> pn])]],
                         Tail(items))

\* main: phase 1, then phase 2 (lines 92-110), which only makes missing kind
\* directories and creates no link; the value is the registered table
migrate(reg, plg) ==
    LET acc == MigratePhase1([reg |-> reg, plg |-> plg,
                              registered |-> [k \in AssetType |-> EmptyDir]],
                             MigrateItems(plg))
    IN  Outcome(acc.reg, acc.plg, Returned(acc.registered))

-----------------------------------------------------------------------------
(* The state machine: a marketplace tree and the calls made on it *)

\* bound on the number of calls in one run from an arbitrary tree
MaxSteps == 1
\* bound on the number of calls in one run of the mutators from a consistent tree
MaxToolSteps == 2

\* bound on the number of calls in one run of the registry mutators from an empty registry
MaxRegistrySteps == 3
\* bound on the number of calls in one run that builds plugins from nothing
MaxFreshSteps == 3

\* bound on the number of delete_asset calls in one run that follows them step by step
MaxDeleteCalls == 1

\* bound on the number of get_plugins calls in one run over any set of plugin directories
MaxScanCalls == 1

\* bound on the number of calls in one run over plugins made by create_plugin
MaxLinkSteps == 2

\* bound on the number of create_plugin and rename_plugin calls in one run
MaxPluginSteps == 3

\* bound on the number of rename_asset and delete_asset calls in one run that
\* follows them step by step, may interrupt them, and recovers
MaxInterruptCalls == 1

\* bound on the number of rebuild calls in one run
MaxRebuildCalls == 2

\* bound on the number of migration runs in one run
MaxMigrateCalls == 1

\* names the calls draw their arguments from
X  == <<"x">>
XY == <<"x", "y">>
Y  == <<"y">>
P  == <<"p">>
PX == <<"p", "x">>

AssetNames == {X, XY}
PluginNames == {P, PX}
\* the names a plugin may be renamed to
Q  == <<"q">>
NewPluginNames == PluginNames \cup {Q}
Descriptions == {"", "tools"}
OpTypes == {SKILL, COMMAND}
Sources == {[type |-> "file", name |-> X \o MD], [type |-> "dir", name |-> X],
            [type |-> "missing", name |-> X]}
NameArgs == {NoName, SomeName(XY)}
Roots == {<<"/", "r">>, <<"r">>}
\* a root given as an absolute path through the symbolic link /l
LinkedRoot == <<"/", "l", "/", "r">>
\* args.plugin of rebuild: absent, or a name
RebuildArgs == {NoName} \cup {SomeName(n) : n \in NewPluginNames}

EmptyRegistry == [k \in AssetType |-> EmptyDir]

\* a directory given as a set of <<name, entry>> pairs with distinct names
DirOf(pairs) == [n \in {pr[1] : pr \in pairs} |-> (CHOOSE pr \in pairs : pr[1] = n)[2]]

\* a plugin directory with the given manifest, skills and commands directories
PluginWith(m, skills, commands) ==
    [manifest |-> m,
     dirs |-> [k \in AssetType |->
                 IF k = SKILL THEN skills ELSE IF k = COMMAND THEN commands ELSE EmptyDir]]

\* registry/skills of the initial trees: x absent, a directory or a file; xy absent or a directory
SkillRegistries ==
    {DirOf(a \cup b) :
        a \in {{}, {<<X, "dir">>}, {<<X \o MD, "file">>}},
        b \in {{}, {<<XY, "dir">>}}}

\* plugins/p/skills of the initial trees: at most one entry for x and one for xy,
\* each a link (into the registry, out of it, or dangling) or an unlinked copy
\* of an asset (a content file <name>.md or a directory <name>)
XEntries ==
    {{}, {<<X, RegLink(SKILL, X)>>}, {<<X \o MD, RegLink(SKILL, X \o MD)>>},
     {<<X, VoidLink(X)>>}, {<<X, OutLink(X)>>}, {<<X, DirEntry>>},
     {<<X \o MD, FileEntry>>}}
XYEntries == {{}, {<<XY, RegLink(SKILL, XY)>>}, {<<XY, DirEntry>>}}

\* one plugin with every kind of entry
InitZoo ==
    /\ root = <<"/", "r">>
    /\ \E sr \in SkillRegistries, a \in XEntries, b \in XYEntries :
        /\ registry = [EmptyRegistry EXCEPT ![SKILL] = sr]
        /\ plugins = [pn \in {P} |-> PluginWith(OkManifest(P), DirOf(a \cup b), EmptyDir)]

\* two plugin directories sharing assets, with any manifest state and any root
InitShared ==
    /\ root \in Roots
    /\ \E xp \in {X, X \o MD},
          m \in {OkManifest(PX), NoManifest, BadManifest},
          s \in BOOLEAN,
          c \in {"none", "same", "cross", "stale"} :
        LET link == DirOf({<<xp, RegLink(SKILL, xp)>>})
            commands ==
                CASE c = "none" -> EmptyDir
                  [] c = "same" -> DirOf({<<X \o MD, RegLink(COMMAND, X \o MD)>>})
                  [] c = "stale" -> DirOf({<<Y \o MD, RegLink(COMMAND, Y \o MD)>>})
                  [] OTHER -> DirOf({<<X, RegLink(SKILL, xp)>>})
        IN  /\ registry = [EmptyRegistry EXCEPT
                              ![SKILL] = DirOf({<<xp, IF xp = X THEN "dir" ELSE "file">>}),
                              ![COMMAND] = DirOf({<<X \o MD, "file">>})]
            /\ plugins = [pn \in {P, PX} |->
                            IF pn = P THEN PluginWith(OkManifest(P), link, EmptyDir)
                            ELSE PluginWith(m, IF s THEN link ELSE EmptyDir, commands)]

NoCall == [op |-> "init", args |-> <<>>, result |-> Returned("None")]

\* no call is in progress
Idle == [phase |-> "idle", at |-> 0, todo |-> <<>>, kind |-> <<>>, path |-> <<>>]

Init ==
    /\ InitZoo \/ InitShared
    /\ last = NoCall
    /\ pre = [reg |-> registry, plg |-> plugins]
    /\ steps = MaxSteps
    /\ run = Idle

\* one completed call: the tree becomes what the call leaves, the call is recorded
Call(op, args, out) ==
    /\ steps > 0
    /\ run = Idle
    /\ steps' = steps - 1
    /\ pre' = [reg |-> registry, plg |-> plugins]
    /\ registry' = out.reg
    /\ plugins' = out.plg
    /\ last' = [op |-> op, args |-> args, result |-> out.result]
    /\ UNCHANGED <<root, run>>

CreatePlugin ==
    \E n \in PluginNames, d \in Descriptions :
        Call("create_plugin", <<n, d>>, create_plugin(registry, plugins, n, d))

AddAssetToPlugin ==
    \E p \in PluginNames, a \in AssetNames, k \in OpTypes :
        Call("add_asset_to_plugin", <<p, a, k>>,
             add_asset_to_plugin(registry, plugins, p, a, k))

RemoveAssetFromPlugin ==
    \E p \in PluginNames, a \in AssetNames, k \in OpTypes :
        Call("remove_asset_from_plugin", <<p, a, k>>,
             remove_asset_from_plugin(registry, plugins, p, a, k))

AddToRegistry ==
    \E src \in Sources, k \in OpTypes, n \in NameArgs :
        Call("add_to_registry", <<src, k, n>>,
             add_to_registry(registry, plugins, src, k, n))

DeleteAsset ==
    \E a \in AssetNames, k \in OpTypes, force \in BOOLEAN :
        Call("delete_asset", <<a, k, force>>,
             delete_asset(registry, plugins, a, k, force))

RenameAsset ==
    \E old \in AssetNames, new \in AssetNames, k \in OpTypes :
        Call("rename_asset", <<old, new, k>>,
             rename_asset(root, registry, plugins, old, new, k))

RenamePlugin ==
    \E old \in PluginNames, new \in NewPluginNames :
        Call("rename_plugin", <<old, new>>,
             rename_plugin(registry, plugins, old, new))

Validate ==
    Call("validate", <<>>,
         Outcome(registry, plugins, Returned(validate(root, registry, plugins))))

Repair ==
    \E dry_run \in BOOLEAN, remove_only \in BOOLEAN :
        Call("repair", <<dry_run, remove_only>>,
             cmd_repair(root, registry, plugins, dry_run, remove_only))

Rebuild ==
    \E plugin_arg \in RebuildArgs :
        Call("rebuild", <<plugin_arg>>, cmd_rebuild(root, registry, plugins, plugin_arg))

Next ==
    \/ CreatePlugin
    \/ AddAssetToPlugin
    \/ RemoveAssetFromPlugin
    \/ AddToRegistry
    \/ DeleteAsset
    \/ RenameAsset
    \/ RenamePlugin
    \/ Validate
    \/ Repair

Spec == Init /\ [][Next]_vars

-----------------------------------------------------------------------------
(* Runs of the mutators alone, from a tree in which every plugin entry is a  *)
(* link plugins/<p>/<kind>/<entry> -> registry/<kind>/<entry> that resolves  *)

\* every entry of every plugin directory is a link to the existing registry
\* entry of its own kind and name
Consistent(reg, plg) ==
    \A p \in DOMAIN plg : \A k \in AssetType : \A n \in DOMAIN plg[p].dirs[k] :
        /\ plg[p].dirs[k][n] = RegLink(k, n)
        /\ n \in DOMAIN reg[k]

\* the links of a plugin kind directory to each entry of a set of registry entries
LinksTo(k, ns) == [n \in ns |-> RegLink(k, n)]

InitTool ==
    /\ root \in Roots
    /\ \E sr \in {DirOf({<<X, "dir">>}), DirOf({<<X \o MD, "file">>}),
                  DirOf({<<X, "dir">>, <<XY, "dir">>})},
          ps \in BOOLEAN, pc \in BOOLEAN,
          other \in {"absent", "listed", "unlisted"} :
        /\ registry = [EmptyRegistry EXCEPT
                          ![SKILL] = sr, ![COMMAND] = DirOf({<<X \o MD, "file">>})]
        /\ plugins =
            [pn \in (IF other = "absent" THEN {P} ELSE {P, PX}) |->
                IF pn = P
                THEN PluginWith(OkManifest(P),
                                IF ps THEN LinksTo(SKILL, DOMAIN sr) ELSE EmptyDir,
                                IF pc THEN LinksTo(COMMAND, {X \o MD}) ELSE EmptyDir)
                ELSE PluginWith(IF other = "listed" THEN OkManifest(PX) ELSE NoManifest,
                                LinksTo(SKILL, DOMAIN sr), EmptyDir)]
    /\ Consistent(registry, plugins)
    /\ last = NoCall
    /\ pre = [reg |-> registry, plg |-> plugins]
    /\ steps = MaxToolSteps
    /\ run = Idle

NextTool ==
    \/ CreatePlugin
    \/ AddAssetToPlugin
    \/ RemoveAssetFromPlugin
    \/ AddToRegistry
    \/ DeleteAsset
    \/ RenameAsset
    \/ RenamePlugin

SpecTool == InitTool /\ [][NextTool]_vars

-----------------------------------------------------------------------------
(* Runs of the registry mutators from an empty registry *)

InitRegistry ==
    /\ root \in Roots
    /\ registry = EmptyRegistry
    /\ plugins = [pn \in {P} |-> NewPluginDir(P, "")]
    /\ last = NoCall
    /\ pre = [reg |-> registry, plg |-> plugins]
    /\ steps = MaxRegistrySteps
    /\ run = Idle

NextRegistry ==
    \/ AddToRegistry
    \/ DeleteAsset
    \/ RenameAsset

SpecRegistry == InitRegistry /\ [][NextRegistry]_vars

-----------------------------------------------------------------------------
(* Runs that create plugins and link registry assets into them, starting   *)
(* with a populated registry and no plugin                                 *)

NoPlugins == [pn \in {} |-> NewPluginDir(pn, "")]

InitFresh ==
    /\ root \in Roots
    /\ \E sr \in {DirOf({<<X, "dir">>, <<XY, "dir">>}), DirOf({<<X \o MD, "file">>}),
                  DirOf({<<X \o MD, "file">>, <<XY, "dir">>})} :
        registry = [EmptyRegistry EXCEPT
                       ![SKILL] = sr, ![COMMAND] = DirOf({<<X \o MD, "file">>})]
    /\ plugins = NoPlugins
    /\ last = NoCall
    /\ pre = [reg |-> registry, plg |-> plugins]
    /\ steps = MaxFreshSteps
    /\ run = Idle

NextFresh ==
    \/ CreatePlugin
    \/ AddAssetToPlugin
    \/ Validate

SpecFresh == InitFresh /\ [][NextFresh]_vars

-----------------------------------------------------------------------------
(* delete_asset statement by statement (builder.py, lines 441-481): the     *)
(* checks, then one step for each item of each listed plugin's kind         *)
(* directory, then the removal of the registry entry. The process may be    *)
(* interrupted between any two steps.                                       *)

\* the names in kind directory d of the links that resolve to registry/<k>/<path>
LinksAt(d, k, path) ==
    {n \in DOMAIN d : IsSymlink(d[n]) /\ d[n].target = RegLink(k, path).target}

\* the order of the two parts of delete_asset behind its checks
DeleteSteps_RegistryFirst == <<"registry", "links">>

DeleteSteps == <<"links", "registry">>

\* the part that follows part number at
PhaseAfter(at) == IF at < Len(DeleteSteps) THEN DeleteSteps[at + 1] ELSE "return"

\* the items the loops of lines 463-469 visit, in order: <<plugin directory, entry>>
RECURSIVE DeleteItems(_, _, _)
DeleteItems(plg, pls, k) ==
    IF pls = <<>> THEN <<>>
    ELSE LET pn == pls[1].name
             ns == IF pn \in DOMAIN plg THEN SortedStrs(DOMAIN plg[pn].dirs[k]) ELSE <<>>
         IN  [i \in DOMAIN ns |-> <<pn, ns[i]>>] \o DeleteItems(plg, Tail(pls), k)

InitDelete ==
    /\ InitZoo \/ InitShared
    /\ last = NoCall
    /\ pre = [reg |-> registry, plg |-> plugins]
    /\ steps = MaxDeleteCalls
    /\ run = Idle

\* lines 445-460: the checks; a refused call ends here
DeleteBegin ==
    \E a \in AssetNames, k \in OpTypes, force \in BOOLEAN :
        LET out == delete_asset(registry, plugins, a, k, force)
        IN  IF out.result.status = "raised"
            THEN Call("delete_asset", <<a, k, force>>, out)
            ELSE /\ steps > 0
                 /\ run = Idle
                 /\ run' = [phase |-> DeleteSteps[1], at |-> 1,
                            todo |-> DeleteItems(plugins, get_plugins(registry, plugins), k),
                            kind |-> k, path |-> FindInRegistry(registry, k, a)]
                 /\ pre' = [reg |-> registry, plg |-> plugins]
                 /\ last' = [op |-> "delete_asset", args |-> <<a, k, force>>,
                             result |-> Raised("", "running")]
                 /\ UNCHANGED <<root, registry, plugins, steps>>

\* lines 469-475: one item of a directory listing
DeleteUnlink ==
    /\ run.phase = "links"
    /\ run.todo # <<>>
    /\ LET pn == run.todo[1][1]
           n == run.todo[1][2]
           d == plugins[pn].dirs[run.kind]
       IN  plugins' = IF n \in LinksAt(d, run.kind, run.path)
                      THEN WithDir(plugins, pn, run.kind, DirRemove(d, n))
                      ELSE plugins
    /\ run' = [run EXCEPT !.todo = Tail(@)]
    /\ UNCHANGED <<root, registry, last, pre, steps>>

\* the loops of lines 463-475 are exhausted
DeleteLinksDone ==
    /\ run.phase = "links"
    /\ run.todo = <<>>
    /\ run' = [run EXCEPT !.phase = PhaseAfter(run.at), !.at = @ + 1]
    /\ UNCHANGED <<root, registry, plugins, last, pre, steps>>

\* lines 477-481: the registry entry is removed
DeleteFromRegistry ==
    /\ run.phase = "registry"
    /\ registry' = [registry EXCEPT ![run.kind] = DirRemove(@, run.path)]
    /\ run' = [run EXCEPT !.phase = PhaseAfter(run.at), !.at = @ + 1]
    /\ UNCHANGED <<root, plugins, last, pre, steps>>

\* delete_asset returns
DeleteReturn ==
    /\ run.phase = "return"
    /\ run' = Idle
    /\ last' = [last EXCEPT !.result = Returned("None")]
    /\ steps' = steps - 1
    /\ UNCHANGED <<root, registry, plugins, pre>>

\* the process is interrupted before the call has made its last change
DeleteInterrupted ==
    /\ run.phase \in Range(DeleteSteps)
    /\ run' = Idle
    /\ last' = [last EXCEPT !.result = Raised("KeyboardInterrupt", "interrupted")]
    /\ steps' = steps - 1
    /\ UNCHANGED <<root, registry, plugins, pre>>

NextDelete ==
    \/ DeleteBegin
    \/ DeleteUnlink
    \/ DeleteLinksDone
    \/ DeleteFromRegistry
    \/ DeleteReturn
    \/ DeleteInterrupted

SpecDelete == InitDelete /\ [][NextDelete]_vars

-----------------------------------------------------------------------------
(* rename_asset and delete_asset followed statement by statement, with an     *)
(* interruption possible between two filesystem calls, and the two ways back *)
(* from an interrupted call: repair, or the same call once more              *)

\* lines 544-547: the path the registry entry is renamed to
RenameNewPath(reg, k, old_path, new_name) ==
    IF reg[k][old_path] = "file" THEN new_name \o MD ELSE new_name

\* lines 565-568: the link at entry n of plugins/<pn>/<k> is one the loop rewrites
RenameMatched(rt, reg, pn, k, d, n, old_path, old_name) ==
    /\ n \in DOMAIN d
    /\ IsSymlink(d[n])
    /\ \/ d[n].target = RegLink(k, old_path).target
       \/ ~TargetExists(reg, d[n].target) /\ IsSubstring(old_name, PathStr(rt, pn, k, n))

InitInterrupt ==
    /\ InitZoo \/ InitShared
    /\ last = NoCall
    /\ pre = [reg |-> registry, plg |-> plugins]
    /\ steps = MaxInterruptCalls
    /\ run = Idle

\* lines 534-550: the checks; a refused call ends here
RenameBegin ==
    \E old \in AssetNames, new \in AssetNames, k \in OpTypes :
        LET out == rename_asset(root, registry, plugins, old, new, k)
        IN  IF out.result.status = "raised"
            THEN Call("rename_asset", <<old, new, k>>, out)
            ELSE /\ steps > 0
                 /\ run = Idle
                 /\ run' = [phase |-> "rename", at |-> 1, todo |-> <<>>,
                            kind |-> k, path |-> FindInRegistry(registry, k, old)]
                 /\ pre' = [reg |-> registry, plg |-> plugins]
                 /\ last' = [op |-> "rename_asset", args |-> <<old, new, k>>,
                             result |-> Raised("", "running")]
                 /\ UNCHANGED <<root, registry, plugins, steps>>

\* line 553: old_path.rename(new_path); then get_plugins() of line 556
RenameInRegistry ==
    /\ run.phase = "rename"
    /\ LET new_path == RenameNewPath(registry, run.kind, run.path, last.args[2])
           reg1 == [registry EXCEPT ![run.kind] =
                       DirPut(DirRemove(@, run.path), new_path, registry[run.kind][run.path])]
       IN  /\ registry' = reg1
           /\ run' = [run EXCEPT !.phase = "relink",
                                 !.todo = DeleteItems(plugins, get_plugins(reg1, plugins),
                                                      run.kind)]
    /\ UNCHANGED <<root, plugins, last, pre, steps>>

\* lines 563-570: one item of a directory listing; item.unlink() when it matches
RenameUnlink ==
    /\ run.phase = "relink"
    /\ run.todo # <<>>
    /\ LET pn == run.todo[1][1]
           n == run.todo[1][2]
           d == plugins[pn].dirs[run.kind]
       IN  IF RenameMatched(root, registry, pn, run.kind, d, n, run.path, last.args[1])
           THEN /\ plugins' = WithDir(plugins, pn, run.kind, DirRemove(d, n))
                /\ run' = [run EXCEPT !.phase = "symlink"]
           ELSE /\ plugins' = plugins
                /\ run' = [run EXCEPT !.todo = Tail(@)]
    /\ UNCHANGED <<root, registry, last, pre, steps>>

\* lines 571-578: os.symlink(rel_path, new_link); FileExistsError is swallowed
RenameSymlink ==
    /\ run.phase = "symlink"
    /\ LET pn == run.todo[1][1]
           d == plugins[pn].dirs[run.kind]
           new_path == RenameNewPath(pre.reg, run.kind, run.path, last.args[2])
           new_link_name == IF Suffix(new_path) = MD THEN last.args[2] \o MD
                            ELSE last.args[2]
       IN  plugins' = IF new_link_name \in DOMAIN d THEN plugins
                      ELSE WithDir(plugins, pn, run.kind,
                                   DirPut(d, new_link_name, RegLink(run.kind, new_path)))
    /\ run' = [run EXCEPT !.phase = "relink", !.todo = Tail(@)]
    /\ UNCHANGED <<root, registry, last, pre, steps>>

\* the loops of lines 556-580 are exhausted
RenameLinksDone ==
    /\ run.phase = "relink"
    /\ run.todo = <<>>
    /\ run' = [run EXCEPT !.phase = "renamed"]
    /\ UNCHANGED <<root, registry, plugins, last, pre, steps>>

\* rename_asset returns
RenameReturn ==
    /\ run.phase = "renamed"
    /\ run' = Idle
    /\ last' = [last EXCEPT !.result = Returned("None")]
    /\ steps' = steps - 1
    /\ UNCHANGED <<root, registry, plugins, pre>>

\* the process is interrupted before the call has made its last change
RenameInterrupted ==
    /\ run.phase \in {"rename", "relink", "symlink"}
    /\ run' = Idle
    /\ last' = [last EXCEPT !.result = Raised("KeyboardInterrupt", "interrupted")]
    /\ steps' = steps - 1
    /\ UNCHANGED <<root, registry, plugins, pre>>

\* the last call was interrupted and nothing has been run since
Interrupted == run = Idle /\ last.result.exc = "KeyboardInterrupt"

\* after an interruption: repair, writing (dry_run false); pre keeps the tree
\* the interrupted call started from
RepairAfterInterrupt_DryRun ==
    /\ Interrupted
    /\ \E remove_only \in BOOLEAN :
        LET out == cmd_repair(root, registry, plugins, TRUE, remove_only)
        IN  /\ registry' = out.reg
            /\ plugins' = out.plg
            /\ last' = [last EXCEPT !.result = out.result]
    /\ run' = [Idle EXCEPT !.phase = "repaired"]
    /\ UNCHANGED <<root, pre, steps>>

RepairAfterInterrupt ==
    /\ Interrupted
    /\ \E remove_only \in BOOLEAN :
        LET out == cmd_repair(root, registry, plugins, FALSE, remove_only)
        IN  /\ registry' = out.reg
            /\ plugins' = out.plg
            /\ last' = [last EXCEPT !.result = out.result]
    /\ run' = [Idle EXCEPT !.phase = "repaired"]
    /\ UNCHANGED <<root, pre, steps>>

\* after an interruption: the same call with the same arguments, to its end
RerunAfterInterrupt ==
    /\ Interrupted
    /\ LET out == IF last.op = "rename_asset"
                  THEN rename_asset(root, registry, plugins,
                                    last.args[1], last.args[2], last.args[3])
                  ELSE delete_asset(registry, plugins,
                                    last.args[1], last.args[2], last.args[3])
       IN  /\ registry' = out.reg
           /\ plugins' = out.plg
           /\ last' = [last EXCEPT !.result = out.result]
    /\ run' = [Idle EXCEPT !.phase = "rerun"]
    /\ UNCHANGED <<root, pre, steps>>

NextInterrupt ==
    \/ DeleteBegin
    \/ DeleteUnlink
    \/ DeleteLinksDone
    \/ DeleteFromRegistry
    \/ DeleteReturn
    \/ DeleteInterrupted
    \/ RenameBegin
    \/ RenameInRegistry
    \/ RenameUnlink
    \/ RenameSymlink
    \/ RenameLinksDone
    \/ RenameReturn
    \/ RenameInterrupted
    \/ RepairAfterInterrupt
    \/ RerunAfterInterrupt

SpecInterrupt == InitInterrupt /\ [][NextInterrupt]_vars

-----------------------------------------------------------------------------
(* Runs of the link operations over plugins made by create_plugin: plugin p  *)
(* exists with the links add_asset_to_plugin makes, px may be created        *)

InitLinks ==
    /\ root \in {<<"/", "r">>, LinkedRoot}
    /\ \E sr \in {DirOf({<<X, "dir">>}), DirOf({<<X \o MD, "file">>}),
                  DirOf({<<X, "dir">>, <<XY, "dir">>})},
          ps \in BOOLEAN, pc \in BOOLEAN :
        /\ registry = [EmptyRegistry EXCEPT
                          ![SKILL] = sr, ![COMMAND] = DirOf({<<X \o MD, "file">>})]
        /\ plugins =
            [pn \in {P} |->
                [NewPluginDir(P, "") EXCEPT
                    !.dirs[SKILL] = IF ps THEN LinksTo(SKILL, DOMAIN sr) ELSE EmptyDir,
                    !.dirs[COMMAND] = IF pc THEN LinksTo(COMMAND, {X \o MD}) ELSE EmptyDir]]
    /\ last = NoCall
    /\ pre = [reg |-> registry, plg |-> plugins]
    /\ steps = MaxLinkSteps
    /\ run = Idle

NextLinks ==
    \/ CreatePlugin
    \/ AddAssetToPlugin
    \/ RemoveAssetFromPlugin
    \/ RenameAsset
    \/ DeleteAsset
    \/ RenamePlugin
    \/ Repair
    \/ Rebuild

SpecLinks == InitLinks /\ [][NextLinks]_vars

-----------------------------------------------------------------------------
(* Runs of create_plugin and rename_plugin from a tree with no plugin *)

InitPlugins ==
    /\ root \in Roots
    /\ registry = [EmptyRegistry EXCEPT ![SKILL] = DirOf({<<X, "dir">>})]
    /\ plugins = NoPlugins
    /\ last = NoCall
    /\ pre = [reg |-> registry, plg |-> plugins]
    /\ steps = MaxPluginSteps
    /\ run = Idle

NextPlugins ==
    \/ CreatePlugin
    \/ RenamePlugin

SpecPlugins == InitPlugins /\ [][NextPlugins]_vars

-----------------------------------------------------------------------------
(* Runs of rebuild over trees with links of every form, under every root *)

\* plugins/p/skills holds at most one entry x.md (a relative or an absolute
\* link into the registry, a link out of it, or a copy) and at most one
\* dangling link y.md; plugins/px has any manifest state and may link x.md too
InitRebuild ==
    /\ root \in Roots \cup {LinkedRoot}
    /\ registry = [EmptyRegistry EXCEPT ![SKILL] = DirOf({<<X \o MD, "file">>})]
    /\ \E a \in {{}, {<<X \o MD, RegLink(SKILL, X \o MD)>>},
                  {<<X \o MD, AbsLink(SKILL, X \o MD)>>},
                  {<<X \o MD, OutLink(X \o MD)>>}, {<<X \o MD, FileEntry>>}},
          b \in {{}, {<<Y \o MD, RegLink(SKILL, Y \o MD)>>}, {<<Y \o MD, VoidLink(Y \o MD)>>}},
          m \in {OkManifest(PX), NoManifest, BadManifest},
          c \in {{}, {<<X \o MD, RegLink(SKILL, X \o MD)>>},
                  {<<X \o MD, AbsLink(SKILL, X \o MD)>>}} :
        plugins = [pn \in {P, PX} |->
                     IF pn = P THEN PluginWith(OkManifest(P), DirOf(a \cup b), EmptyDir)
                     ELSE PluginWith(m, DirOf(c), EmptyDir)]
    /\ last = NoCall
    /\ pre = [reg |-> registry, plg |-> plugins]
    /\ steps = MaxRebuildCalls
    /\ run = Idle

NextRebuild == Rebuild

SpecRebuild == InitRebuild /\ [][NextRebuild]_vars

-----------------------------------------------------------------------------
(* Runs of the migration over plugins that hold their assets themselves *)

\* the entries of a plugin's skills directory before migration: the asset x as
\* a content file, as a directory or already as a link, and the asset xy as a
\* directory
CopiesOfX == {{}, {<<X \o MD, FileEntry>>}, {<<X, DirEntry>>},
              {<<X \o MD, RegLink(SKILL, X \o MD)>>}}
CopiesOfXY == {{}, {<<XY, DirEntry>>}}

InitMigrate ==
    /\ root = <<"/", "r">>
    /\ registry \in {EmptyRegistry,
                      [EmptyRegistry EXCEPT ![SKILL] = DirOf({<<Y \o MD, "file">>})]}
    /\ \E a \in CopiesOfX, b \in CopiesOfXY, c \in CopiesOfX, d \in CopiesOfXY,
          m \in {OkManifest(PX), NoManifest} :
        plugins = [pn \in {P, PX} |->
                     IF pn = P THEN PluginWith(OkManifest(P), DirOf(a \cup b), EmptyDir)
                     ELSE PluginWith(m, DirOf(c \cup d), EmptyDir)]
    /\ last = NoCall
    /\ pre = [reg |-> registry, plg |-> plugins]
    /\ steps = MaxMigrateCalls
    /\ run = Idle

Migrate == Call("migrate", <<>>, migrate(registry, plugins))

NextMigrate == Migrate

SpecMigrate == InitMigrate /\ [][NextMigrate]_vars

-----------------------------------------------------------------------------
(* Scans: get_plugins over plugin directories in any manifest state *)

HIDDEN == <<".", "p">>
ScanDirs == {P, PX, Q, HIDDEN}

\* any set of plugin directories, each with a parseable, a missing or an
\* unparseable manifest and one link into the registry
InitScan ==
    /\ root \in Roots
    /\ registry = [EmptyRegistry EXCEPT ![SKILL] = DirOf({<<X, "dir">>})]
    /\ \E D \in SUBSET ScanDirs :
        \E m \in [D -> {"ok", "none", "bad"}] :
            plugins = [d \in D |->
                         PluginWith(CASE m[d] = "ok" -> OkManifest(d)
                                      [] m[d] = "none" -> NoManifest
                                      [] OTHER -> BadManifest,
                                    DirOf({<<X, RegLink(SKILL, X)>>}), EmptyDir)]
    /\ last = NoCall
    /\ pre = [reg |-> registry, plg |-> plugins]
    /\ steps = MaxScanCalls
    /\ run = Idle

GetPlugins ==
    Call("get_plugins", <<>>,
         Outcome(registry, plugins, Returned(get_plugins(registry, plugins))))

NextScan == GetPlugins

SpecScan == InitScan /\ [][NextScan]_vars

-----------------------------------------------------------------------------
(* Properties *)

Did(op) == last.op = op
Succeeded == last.result.status = "returned"

\* the plugins get_plugins lists under the name of their own directory
Listed(reg, plg) ==
    {pl.name : pl \in {q \in Range(get_plugins(reg, plg)) : q.name = q.dir}}

\* the names of the registry assets of kind k
AssetNamesOf(reg, k) == {a.name : a \in Range(get_registry_assets(reg, {k}))}

\* the paths validate() reports as 'broken'
BrokenPaths(rt, reg, plg) ==
    {<<i.plugin, i.kind, i.name>> : i \in Range(BrokenIssues(rt, reg, plg))}

C2_RenameUpdatesEveryReference ==
    (Did("rename_asset") /\ Succeeded) =>
        LET old == last.args[1]
            new == last.args[2]
            k == last.args[3]
        IN  /\ \A p \in PluginNames :
                   old \in Membership(pre.reg, pre.plg, p, k) =>
                       /\ new \in Membership(registry, plugins, p, k)
                       /\ old \notin Membership(registry, plugins, p, k)
            /\ BrokenIssues(root, registry, plugins) = <<>>

\* C2 amended: after a successful rename_asset(old, new, kind), every listed
\* plugin that held a link resolving to the old registry entry holds no link to
\* the old path any more and holds an entry under the new name (new, or new.md
\* for a file asset); validate() reports no 'broken' issue under a plugin's
\* kind directory that it did not report before the call.
C2_RenameUpdatesMatchedLinks ==
    (Did("rename_asset") /\ Succeeded) =>
        LET new == last.args[2]
            k == last.args[3]
            old_path == FindInRegistry(pre.reg, k, last.args[1])
        IN  /\ \A p \in Listed(pre.reg, pre.plg) :
                   LinksAt(pre.plg[p].dirs[k], k, old_path) # {} =>
                       /\ LinksAt(plugins[p].dirs[k], k, old_path) = {}
                       /\ \/ new \in DOMAIN plugins[p].dirs[k]
                          \/ (new \o MD) \in DOMAIN plugins[p].dirs[k]
            /\ {b \in BrokenPaths(root, registry, plugins) : b[2] = k}
                  \subseteq BrokenPaths(root, pre.reg, pre.plg)

\* a rename has replaced a plugin's link to the old entry by a link to the new one
C2_Witness ==
    /\ Did("rename_asset") /\ Succeeded
    /\ \E p \in Listed(pre.reg, pre.plg) :
        /\ LinksAt(pre.plg[p].dirs[last.args[3]], last.args[3],
                   FindInRegistry(pre.reg, last.args[3], last.args[1])) # {}
        /\ LinksAt(plugins[p].dirs[last.args[3]], last.args[3],
                   FindInRegistry(registry, last.args[3], last.args[2])) # {}

\* C3: delete_asset(name, kind, force=False) on an asset whose usage entry lists
\* a plugin raises an error naming every referencing plugin and changes nothing.
C3_DeleteRefusedWhenReferenced ==
    LET name == last.args[1]
        k == last.args[2]
        usage == get_usage_info(pre.reg, pre.plg)
        key == UsageKey(k, name)
    IN  (/\ Did("delete_asset") /\ ~last.args[3]
         /\ key \in DOMAIN usage /\ usage[key].plugins # <<>>) =>
            /\ last.result.status = "raised"
            /\ last.result.exc = "ValueError"
            /\ \A pl \in Range(get_plugins(pre.reg, pre.plg)) :
                   name \in Range(pl.lists[k]) => pl.name \in Range(last.result.detail)
            /\ registry = pre.reg
            /\ plugins = pre.plg

\* an unforced delete of an asset that two plugins reference has been refused
C3_Witness ==
    /\ Did("delete_asset") /\ ~last.args[3]
    /\ last.result.status = "raised"
    /\ last.result.detail = <<P, PX>>
    /\ registry = pre.reg /\ plugins = pre.plg

\* C4 as stated: delete_asset(name, kind, force=True) on a referenced asset
\* succeeds; afterwards the asset is absent from get_registry_assets() and no
\* plugin the usage index listed still shows the name in its kind list.
C4_ForcedDeleteRemovesEveryReference ==
    LET name == last.args[1]
        k == last.args[2]
        usage == get_usage_info(pre.reg, pre.plg)
        key == UsageKey(k, name)
    IN  (/\ Did("delete_asset") /\ last.args[3]
         /\ key \in DOMAIN usage /\ usage[key].plugins # <<>>) =>
            /\ Succeeded
            /\ name \notin AssetNamesOf(registry, k)
            /\ \A p \in Range(usage[key].plugins) :
                   name \notin Membership(registry, plugins, p, k)

\* C4 amended: delete_asset(name, kind, force=True) on a referenced asset
\* succeeds; afterwards the registry entry the name resolved to (name, else
\* name.md) is gone and no plugin the usage index listed holds a link resolving
\* to it; its other entries of that kind are as before.
C4_ForcedDeleteRemovesLinks ==
    LET name == last.args[1]
        k == last.args[2]
        usage == get_usage_info(pre.reg, pre.plg)
        key == UsageKey(k, name)
        asset_path == FindInRegistry(pre.reg, k, name)
    IN  (/\ Did("delete_asset") /\ last.args[3]
         /\ key \in DOMAIN usage /\ usage[key].plugins # <<>>) =>
            /\ Succeeded
            /\ asset_path \notin DOMAIN registry[k]
            /\ \A p \in Range(usage[key].plugins) \cap DOMAIN plugins :
                   /\ LinksAt(plugins[p].dirs[k], k, asset_path) = {}
                   /\ \A n \in (DOMAIN pre.plg[p].dirs[k])
                                  \ LinksAt(pre.plg[p].dirs[k], k, asset_path) :
                          /\ n \in DOMAIN plugins[p].dirs[k]
                          /\ plugins[p].dirs[k][n] = pre.plg[p].dirs[k][n]

\* a forced delete has removed an asset together with the link a plugin held to it
C4_Witness ==
    /\ Did("delete_asset") /\ last.args[3] /\ Succeeded
    /\ \E p \in Listed(pre.reg, pre.plg) :
        /\ LinksAt(pre.plg[p].dirs[last.args[2]], last.args[2],
                   FindInRegistry(pre.reg, last.args[2], last.args[1])) # {}
        /\ last.args[1] \in Membership(pre.reg, pre.plg, p, last.args[2])
        /\ last.args[1] \notin Membership(registry, plugins, p, last.args[2])

\* C5: after repair has run with dry_run false, every link validate() reported
\* as 'broken' before the run resolves to an existing registry entry of its
\* kind or no longer exists, and validate() reports no 'broken' issue.
C5_RepairLeavesNoBrokenLink ==
    (Did("repair") /\ ~last.args[1]) =>
        /\ \A b \in BrokenPaths(root, pre.reg, pre.plg) :
               LET d == plugins[b[1]].dirs[b[2]]
               IN  \/ b[3] \notin DOMAIN d
                   \/ /\ IsSymlink(d[b[3]])
                      /\ d[b[3]].target.base = "registry"
                      /\ d[b[3]].target.kind = b[2]
                      /\ d[b[3]].target.name \in DOMAIN registry[b[2]]
        /\ BrokenIssues(root, registry, plugins) = <<>>

\* a repair has relinked one broken link and removed another
C5_Witness ==
    /\ Did("repair") /\ ~last.args[1] /\ Succeeded
    /\ last.result.value.fixed >= 1
    /\ last.result.value.removed >= 1
    /\ Cardinality(BrokenPaths(root, pre.reg, pre.plg)) >= 2

\* the number of issues of one type validate() returned for one path
IssueCount(issues, p, k, n, t) ==
    Cardinality({i \in DOMAIN issues :
        issues[i] = [plugin |-> p, kind |-> k, name |-> n, issue_type |-> t]})

\* C6: validate() classifies every link under every listed plugin's kind
\* directories exactly once: target missing, one 'broken' issue; target existing
\* outside the registry, one 'warning'; target inside the registry, no issue;
\* entries that are not links, no issue; is_valid iff there is no 'broken' issue.
C6_ValidateClassifiesEveryLink ==
    Did("validate") =>
        LET res == last.result.value
            issues == res.issues
        IN  /\ \A p \in Listed(registry, plugins) : \A k \in AssetType :
                \A n \in DOMAIN plugins[p].dirs[k] :
                    LET e == plugins[p].dirs[k][n]
                        broken == IssueCount(issues, p, k, n, "broken")
                        warning == IssueCount(issues, p, k, n, "warning")
                    IN  IF IsSymlink(e) /\ ~TargetExists(registry, e.target)
                        THEN broken = 1 /\ warning = 0
                        ELSE IF IsSymlink(e) /\ e.target.base = "outside"
                        THEN broken = 0 /\ warning = 1
                        ELSE broken = 0 /\ warning = 0
            /\ res.is_valid <=> ~\E i \in DOMAIN issues : issues[i].issue_type = "broken"

\* C7: for a listed plugin p and a registry asset a of kind k, after
\* add_asset_to_plugin(p, a, k) returns True, get_plugins() shows a in p's k
\* list and get_usage_info()["k:a"].plugins contains p exactly once.
C7_AddShowsInPluginAndUsage ==
    (/\ Did("add_asset_to_plugin") /\ Succeeded /\ last.result.value
     /\ last.args[1] \in Listed(pre.reg, pre.plg)
     /\ last.args[2] \in AssetNamesOf(pre.reg, last.args[3])) =>
        LET p == last.args[1]
            a == last.args[2]
            k == last.args[3]
            usage == get_usage_info(registry, plugins)
        IN  /\ a \in Membership(registry, plugins, p, k)
            /\ UsageKey(k, a) \in DOMAIN usage
            /\ Count(usage[UsageKey(k, a)].plugins, p) = 1

\* a single-file asset has been linked into a plugin that did not have it
C7_Witness ==
    /\ Did("add_asset_to_plugin") /\ Succeeded /\ last.result.value
    /\ last.args[1] \in Listed(pre.reg, pre.plg)
    /\ last.args[2] \in AssetNamesOf(pre.reg, last.args[3])
    /\ (last.args[2] \o MD) \in DOMAIN plugins[last.args[1]].dirs[last.args[3]]
    /\ last.args[2] \notin Membership(pre.reg, pre.plg, last.args[1], last.args[3])

\* C8: when plugin p exists, asset a is in the registry and p's kind directory
\* already holds an entry for a (a link, valid or broken, or an unlinked copy),
\* add_asset_to_plugin(p, a, k) returns False without raising and changes nothing.
C8_AddIsNoOpWhenPresent ==
    LET p == last.args[1]
        a == last.args[2]
        k == last.args[3]
    IN  (/\ Did("add_asset_to_plugin")
         /\ p \in DOMAIN pre.plg
         /\ FindInRegistry(pre.reg, k, a) # <<>>
         /\ \/ a \in DOMAIN pre.plg[p].dirs[k]
            \/ (a \o MD) \in DOMAIN pre.plg[p].dirs[k]) =>
            /\ Succeeded
            /\ ~last.result.value
            /\ registry = pre.reg
            /\ plugins = pre.plg

\* C9: for a listed plugin p and a registry asset a of kind k that p's k list
\* does not contain, add_asset_to_plugin(p, a, k) returns True, a following
\* remove_asset_from_plugin(p, a, k) returns True, and p's k directory then has
\* exactly the entries it had before the add.
C9_RemoveInvertsAdd ==
    (/\ Did("add_asset_to_plugin")
     /\ last.args[1] \in Listed(pre.reg, pre.plg)
     /\ last.args[2] \in AssetNamesOf(pre.reg, last.args[3])
     /\ last.args[2] \notin Membership(pre.reg, pre.plg, last.args[1], last.args[3])) =>
        LET p == last.args[1]
            a == last.args[2]
            k == last.args[3]
            removed == remove_asset_from_plugin(registry, plugins, p, a, k)
        IN  /\ Succeeded /\ last.result.value
            /\ plugins[p].dirs[k] # pre.plg[p].dirs[k]
            /\ removed.result = Returned(TRUE)
            /\ removed.plg[p].dirs[k] = pre.plg[p].dirs[k]
            /\ removed.reg = pre.reg

\* an asset has been linked into a plugin that holds other entries of the kind
C9_Witness ==
    /\ Did("add_asset_to_plugin") /\ Succeeded /\ last.result.value
    /\ last.args[1] \in Listed(pre.reg, pre.plg)
    /\ last.args[2] \in AssetNamesOf(pre.reg, last.args[3])
    /\ last.args[2] \notin Membership(pre.reg, pre.plg, last.args[1], last.args[3])
    /\ pre.plg[last.args[1]].dirs[last.args[3]] # EmptyDir
    /\ FindInRegistry(pre.reg, last.args[3], last.args[2]) = last.args[2] \o MD

\* C10: after add_to_registry(source, kind, name) succeeds, get_registry_assets(kind)
\* contains exactly one asset whose name is the resolved name (the given name,
\* else the source's stem for a file or its name for a directory), and the
\* returned Asset has that name.
C10_AddedAssetListedOnce ==
    (Did("add_to_registry") /\ Succeeded) =>
        LET source == last.args[1]
            k == last.args[2]
            resolved == IF last.args[3].given THEN last.args[3].val
                        ELSE IF source.type = "file" THEN Stem(source.name)
                        ELSE source.name
        IN  /\ Cardinality({a \in Range(get_registry_assets(registry, {k})) :
                               a.name = resolved}) = 1
            /\ last.result.value.name = resolved

\* the name add_to_registry resolves for a source: the given name, else the
\* stem of a file source or the name of a directory source
ResolvedName(source, name_arg) ==
    IF name_arg.given THEN name_arg.val
    ELSE IF source.type = "file" THEN Stem(source.name) ELSE source.name

\* C11: from an empty registry, after any sequence of add_to_registry,
\* rename_asset and delete_asset calls, get_registry_assets() never holds two
\* assets with the same (kind, name); add_to_registry and rename_asset fail
\* whenever the destination name already exists in that kind.
C11_AssetNamesUnique ==
    /\ \A k \in AssetType :
           LET assets == get_registry_assets(registry, {k})
           IN  \A i, j \in DOMAIN assets :
                   i # j => assets[i].name # assets[j].name
    /\ (/\ Did("add_to_registry")
        /\ last.args[1].type # "missing"
        /\ ResolvedName(last.args[1], last.args[3]) \in AssetNamesOf(pre.reg, last.args[2]))
           => last.result.status = "raised"
    /\ (Did("rename_asset") /\ last.args[2] \in AssetNamesOf(pre.reg, last.args[3]))
           => last.result.status = "raised"

\* C12: in a run that only creates plugins and links registry assets into
\* them, every link lives at plugin_dir/<kind>/<registry entry name> and
\* resolves to the existing registry entry of that name, and validate()
\* reports no 'broken' and no 'warning' issue.
C12_FreshLinksValidAndCompliant ==
    /\ \A p \in DOMAIN plugins : \A k \in AssetType : \A n \in DOMAIN plugins[p].dirs[k] :
           /\ plugins[p].dirs[k][n] = RegLink(k, n)
           /\ n \in DOMAIN registry[k]
    /\ validate(root, registry, plugins).issues = <<>>

\* C13: the key set of get_usage_info() is the set of "<kind>:<name>" of the
\* assets of get_registry_assets(); the plugin list of a key contains plugin p
\* iff p's membership list of that kind contains the name, each such plugin
\* once, so that usage_count is the number of plugins that hold the asset;
\* plugin entries that name no registry asset add no key.
C13_UsageIndexExact ==
    LET usage == get_usage_info(registry, plugins)
        assets == Range(get_registry_assets(registry, AssetType))
        pls == Range(get_plugins(registry, plugins))
    IN  /\ DOMAIN usage = {a.asset_type \o <<":">> \o a.name : a \in assets}
        /\ \A a \in assets :
               LET u == usage[a.asset_type \o <<":">> \o a.name]
                   users == {pl.name : pl \in {q \in pls :
                                a.name \in Range(q.lists[a.asset_type])}}
               IN  /\ Range(u.plugins) = users
                   /\ \A p \in users : Count(u.plugins, p) = 1
                   /\ usage_count(u) = Cardinality(users)

\* an asset held by two plugins, next to a plugin entry that names no asset of
\* the registry
C13_Witness ==
    LET usage == get_usage_info(registry, plugins)
    IN  /\ \E key \in DOMAIN usage : usage_count(usage[key]) = 2
        /\ \E pl \in Range(get_plugins(registry, plugins)) :
               \E k \in AssetType : \E n \in Range(pl.lists[k]) :
                   UsageKey(k, n) \notin DOMAIN usage

\* C14: get_orphans() returns exactly the registry assets whose usage list is
\* empty, get_shared_assets() exactly the usage entries that list more than one
\* plugin, no asset is both, and the 'orphans' and 'shared' counts of
\* get_stats() are the lengths of those two results.
C14_OrphansAndSharedPartition ==
    LET usage == get_usage_info(registry, plugins)
        assets == Range(get_registry_assets(registry, AssetType))
        key(a) == UsageKey(a.asset_type, a.name)
        orphans == get_orphans(registry, plugins)
        shared == get_shared_assets(registry, plugins)
        stats == get_stats(registry, plugins)
    IN  /\ Range(orphans) = {a \in assets : usage[key(a)].plugins = <<>>}
        /\ \A a \in assets : Count(orphans, a) <= 1
        /\ Range(shared) = {usage[kk] : kk \in {c \in DOMAIN usage : Len(usage[c].plugins) > 1}}
        /\ \A kk \in DOMAIN usage : Count(shared, usage[kk]) <= 1
        /\ \A a \in Range(orphans) : usage[key(a)] \notin Range(shared)
        /\ stats.orphans = Len(orphans)
        /\ stats.shared = Len(shared)

Mutators ==
    {"create_plugin", "add_asset_to_plugin", "remove_asset_from_plugin",
     "add_to_registry", "rename_asset", "delete_asset", "rename_plugin"}

\* the errors raised for a violated precondition
PreconditionErrors ==
    {"already exists", "plugin does not exist", "asset not found",
     "source does not exist", "asset already exists", "asset is used by plugins",
     "plugin not found", "plugin already exists"}

\* C16: whenever a mutator raises because a precondition is violated (plugin or
\* asset not found, destination name already exists, delete blocked by
\* references), the registry entries and every plugin's entries and link
\* targets are what they were before the call.
C16_FailedPreconditionChangesNothing ==
    (/\ last.op \in Mutators
     /\ last.result.status = "raised"
     /\ last.result.msg \in PreconditionErrors) =>
        /\ registry = pre.reg
        /\ plugins = pre.plg

\* a rename onto an existing name has been refused while a plugin links the asset
C16_Witness ==
    /\ Did("rename_asset")
    /\ last.result.status = "raised"
    /\ last.result.msg = "asset already exists"
    /\ last.args[1] # last.args[2]
    /\ \E p \in DOMAIN pre.plg :
           LinksAt(pre.plg[p].dirs[last.args[3]], last.args[3],
                   FindInRegistry(pre.reg, last.args[3], last.args[1])) # {}

C18_RemoveTakesWhateverMatches ==
    LET p == last.args[1]
        a == last.args[2]
        k == last.args[3]
    IN  (Did("remove_asset_from_plugin") /\ p \in DOMAIN pre.plg) =>
            IF a \in DOMAIN pre.plg[p].dirs[k] \/ (a \o MD) \in DOMAIN pre.plg[p].dirs[k]
            THEN /\ last.result = Returned(TRUE)
                 /\ a \notin Membership(registry, plugins, p, k)
            ELSE /\ last.result = Returned(FALSE)
                 /\ plugins = pre.plg
                 /\ registry = pre.reg

\* C19: a successful rename_asset(old, new, kind) deletes or replaces a link
\* only if its resolved target is the old registry path, or its target is
\* missing and its raw link-target string contains old; every other entry of
\* every plugin (links to other assets, broken links to other names, entries
\* of other kinds, entries that are not links) and every other registry entry
\* is unchanged.
C19_RenameTouchesOnlyMatchedLinks ==
    (Did("rename_asset") /\ Succeeded) =>
        LET old == last.args[1]
            k == last.args[3]
            old_path == FindInRegistry(pre.reg, k, old)
            Matched(e) ==
                /\ IsSymlink(e)
                /\ \/ e.target = RegLink(k, old_path).target
                   \/ ~TargetExists(registry, e.target) /\ IsSubstring(old, RawTarget(e))
        IN  /\ DOMAIN plugins = DOMAIN pre.plg
            /\ \A p \in DOMAIN pre.plg :
                   /\ plugins[p].manifest = pre.plg[p].manifest
                   /\ \A kk \in AssetType : \A n \in DOMAIN pre.plg[p].dirs[kk] :
                          (kk # k \/ ~Matched(pre.plg[p].dirs[kk][n])) =>
                              /\ n \in DOMAIN plugins[p].dirs[kk]
                              /\ plugins[p].dirs[kk][n] = pre.plg[p].dirs[kk][n]
            /\ \A kk \in AssetType : \A n \in DOMAIN pre.reg[kk] :
                   (kk # k \/ n # old_path) =>
                       /\ n \in DOMAIN registry[kk]
                       /\ registry[kk][n] = pre.reg[kk][n]

\* the delete_asset call in progress, or just interrupted, has not made its
\* last change yet
DeletePartial ==
    \/ run.phase \in Range(DeleteSteps)
    \/ Did("delete_asset") /\ last.result.exc = "KeyboardInterrupt"

\* C20: in every intermediate state of a delete_asset run, and in the state an
\* interruption leaves, the registry entry still exists while a listed plugin
\* holds a link that resolves to it, and validate() reports no 'broken' issue
\* that it did not report before the call; a run that returns leaves what
\* delete_asset is specified to leave.
C20_DeleteUnlinksBeforeRegistry ==
    /\ DeletePartial =>
           LET k == last.args[2]
               path == FindInRegistry(pre.reg, k, last.args[1])
           IN  /\ (\E p \in ListedDirs(registry, plugins) :
                       LinksAt(plugins[p].dirs[k], k, path) # {})
                      => path \in DOMAIN registry[k]
               /\ BrokenPaths(root, registry, plugins)
                      \subseteq BrokenPaths(root, pre.reg, pre.plg)
    /\ (Did("delete_asset") /\ Succeeded) =>
           LET out == delete_asset(pre.reg, pre.plg, last.args[1], last.args[2], last.args[3])
           IN  registry = out.reg /\ plugins = out.plg

\* the links two plugins held to an asset are gone and the registry entry is
\* about to be removed
C20_Witness ==
    /\ run.phase = "registry"
    /\ run.path \in DOMAIN registry[run.kind]
    /\ Cardinality({p \in DOMAIN pre.plg :
                       LinksAt(pre.plg[p].dirs[run.kind], run.kind, run.path) # {}}) = 2
    /\ \A p \in DOMAIN plugins : LinksAt(plugins[p].dirs[run.kind], run.kind, run.path) = {}

\* C21: a repair run with dry_run changes neither the registry nor any plugin
\* entry or link target, and the would-fix and would-remove counts it reports
\* are the fixed and removed counts of a run without dry_run on the same tree
C21_DryRunChangesNothing ==
    (Did("repair") /\ last.args[1]) =>
        /\ last.result.status = "returned"
        /\ registry = pre.reg
        /\ plugins = pre.plg
        /\ LET real == cmd_repair(root, pre.reg, pre.plg, FALSE, last.args[2]).result.value
           IN  /\ last.result.value.fixed = real.fixed
               /\ last.result.value.removed = real.removed

\* a dry run over a tree with a link it would fix and a link it would remove
C21_Witness ==
    /\ Did("repair") /\ last.args[1]
    /\ last.result.value.fixed >= 1
    /\ last.result.value.removed >= 1

\* every entry of every plugin kind directory, as <<plugin directory, kind, name>>
EntryPaths(plg) ==
    UNION {{<<p, k, n>> : n \in DOMAIN plg[p].dirs[k]} : p \in DOMAIN plg, k \in AssetType}

C23_RepairRelinksByTargetName ==
    (Did("repair") /\ ~last.args[1] /\ ~last.args[2]) =>
        \A t \in BrokenPaths(root, pre.reg, pre.plg) :
            LET target_name == pre.plg[t[1]].dirs[t[2]][t[3]].target.name
                candidates == <<target_name, target_name \o MD,
                                IF EndsWithMd(target_name) THEN Stem(target_name)
                                ELSE target_name>>
                existing == {i \in 1..3 : candidates[i] \in DOMAIN pre.reg[t[2]]}
            IN  IF existing = {}
                THEN t \notin EntryPaths(plugins)
                ELSE /\ t \in EntryPaths(plugins)
                     /\ plugins[t[1]].dirs[t[2]][t[3]] =
                            RegLink(t[2], candidates[CHOOSE i \in existing :
                                                        \A j \in existing : i <= j])

\* a run that relinks one broken link to a registry entry whose file name is
\* not the one the link was aiming at, and removes another
C23_Witness ==
    /\ Did("repair") /\ ~last.args[1] /\ ~last.args[2]
    /\ last.result.value.removed >= 1
    /\ \E t \in BrokenPaths(root, pre.reg, pre.plg) :
            /\ t \in EntryPaths(plugins)
            /\ plugins[t[1]].dirs[t[2]][t[3]].target.name
                    # pre.plg[t[1]].dirs[t[2]][t[3]].target.name

\* C24: get_plugins() returns, sorted by name, exactly the plugin directories
\* that are not hidden and have a parseable manifest; a directory whose
\* manifest is missing or unparseable is left out, keeps no other plugin from
\* being listed, and does not make the call raise
C24_BadPluginNeverAbortsScan ==
    Did("get_plugins") =>
        /\ last.result.status = "returned"
        /\ LET listed == last.result.value
               good == {d \in DOMAIN plugins :
                           ~IsHidden(d) /\ plugins[d].manifest.status = "ok"}
           IN  /\ {pl.dir : pl \in Range(listed)} = good
               /\ Len(listed) = Cardinality(good)
               /\ \A i \in DOMAIN listed : listed[i].name = plugins[listed[i].dir].manifest.name
               /\ \A i, j \in DOMAIN listed :
                      i < j => ~StrLess(listed[j].name, listed[i].name)

\* a scan that lists two plugins next to a hidden directory with a manifest
\* and a directory whose manifest is missing or unparseable
C24_Witness ==
    /\ Did("get_plugins")
    /\ Len(last.result.value) >= 2
    /\ \E d \in DOMAIN plugins : IsHidden(d) /\ plugins[d].manifest.status = "ok"
    /\ \E d \in DOMAIN plugins : ~IsHidden(d) /\ plugins[d].manifest.status # "ok"

\* C25: for plugins made by create_plugin, after any sequence of
\* add_asset_to_plugin, remove_asset_from_plugin, rename_asset, delete_asset,
\* rename_plugin, repair and rebuild calls every entry of every plugin kind
\* directory is a symbolic link, never a copied file or directory
C25_PluginsHoldOnlyLinks ==
    \A t \in EntryPaths(plugins) : IsSymlink(plugins[t[1]].dirs[t[2]][t[3]])

\* a repair run that relinks or removes a link which a rebuild under a root
\* through a symbolic link left dangling, with an entry left in a plugin
C25_Witness ==
    /\ Did("repair") /\ ~last.args[1]
    /\ last.result.value.fixed + last.result.value.removed >= 1
    /\ EntryPaths(plugins) # {}

\* C26: after any sequence of create_plugin and rename_plugin calls every
\* plugin get_plugins() lists has a manifest name equal to the name of its
\* directory and no two listed plugins share a name, so the directories that
\* validate, rename_asset and delete_asset reach through the manifest names
\* are exactly the directories of the listed plugins
C26_PluginNameIsDirectoryName ==
    LET listed == get_plugins(registry, plugins)
    IN  /\ \A i \in DOMAIN listed : listed[i].name = listed[i].dir
        /\ \A i, j \in DOMAIN listed : i # j => listed[i].name # listed[j].name
        /\ Len(listed) = Cardinality(DOMAIN plugins)
        /\ ListedDirs(registry, plugins) = {listed[i].dir : i \in DOMAIN listed}

\* a plugin renamed after it and another plugin were created
C26_Witness ==
    /\ Did("rename_plugin") /\ Succeeded
    /\ last.args[2] \in DOMAIN plugins
    /\ Len(get_plugins(registry, plugins)) >= 2

\* C27: when rename_asset or delete_asset is interrupted between two of its
\* filesystem calls (the registry entry renamed and only some links rewritten;
\* some links removed and the registry entry still there), a repair run with
\* dry_run false made afterwards ends in a state in which validate() reports
\* no 'broken' issue
C27_RepairRecoversInterruptedMutation ==
    run.phase = "repaired" => BrokenIssues(root, registry, plugins) = <<>>

\* a rename_asset call on a tree without broken links, interrupted after the
\* registry entry was renamed, and a repair run that then had links to act on
C27_Witness ==
    /\ run.phase = "repaired"
    /\ Did("rename_asset")
    /\ registry # pre.reg
    /\ BrokenPaths(root, pre.reg, pre.plg) = {}
    /\ last.result.value.fixed + last.result.value.removed >= 1

\* C28: when rename_asset(old, new, kind) or delete_asset(name, kind,
\* force=True) is interrupted between two of its filesystem calls, the same
\* call made again with the same arguments returns without an error and
\* leaves the registry and the plugin links that one uninterrupted call
\* would have left
C28_RerunRecoversState ==
    (run.phase = "rerun" /\ (Did("rename_asset") \/ (Did("delete_asset") /\ last.args[3]))) =>
        LET whole == IF Did("rename_asset")
                     THEN rename_asset(root, pre.reg, pre.plg,
                                       last.args[1], last.args[2], last.args[3])
                     ELSE delete_asset(pre.reg, pre.plg,
                                       last.args[1], last.args[2], last.args[3])
        IN  /\ Succeeded
            /\ registry = whole.reg
            /\ plugins = whole.plg

\* C29: after a rebuild (of all plugins or of one named plugin) every link
\* that resolved to an existing target still exists under the same name and
\* resolves to the same target, broken links and entries that are not links
\* are untouched, every plugin's membership lists and the result of validate()
\* are unchanged, and a second rebuild changes nothing further
C29_RebuildPreservesLinkGraph ==
    (Did("rebuild") /\ Succeeded) =>
        /\ registry = pre.reg
        /\ EntryPaths(plugins) = EntryPaths(pre.plg)
        /\ \A t \in EntryPaths(pre.plg) \cap EntryPaths(plugins) :
               LET before == pre.plg[t[1]].dirs[t[2]][t[3]]
                   after == plugins[t[1]].dirs[t[2]][t[3]]
               IN  IF IsSymlink(before) /\ TargetExists(pre.reg, before.target)
                   THEN IsSymlink(after) /\ after.target = before.target
                   ELSE after = before
        /\ get_plugins(registry, plugins) = get_plugins(pre.reg, pre.plg)
        /\ validate(root, registry, plugins) = validate(root, pre.reg, pre.plg)
        /\ cmd_rebuild(root, registry, plugins, last.args[1]).plg = plugins

\* the plugin entries the migration takes for copies of the asset name of
\* kind k, as <<plugin directory, kind, entry>>
CopiesOf(plg, k, name) ==
    {t \in EntryPaths(plg) :
        t[2] = k /\ MigratedName(t[3], plg[t[1]].dirs[t[2]][t[3]]) = name}

\* C30: after the migration every asset that was an entry other than a link
\* in some plugin is in the registry exactly once, moved there from the first
\* plugin in sorted order that held it, and every plugin that held a copy of
\* it (the first or a duplicate) has a symbolic link to that registry entry
\* in place of the copy
C30_MigrationLeavesLinks ==
    Did("migrate") =>
        \A t \in EntryPaths(pre.plg) :
            LET k == t[2]
                name == MigratedName(t[3], pre.plg[t[1]].dirs[k][t[3]])
                holders == {c[1] : c \in CopiesOf(pre.plg, k, name)}
                first == CHOOSE p \in holders : \A q \in holders \ {p} : StrLess(p, q)
                entries == {a \in Range(get_registry_assets(registry, {k})) : a.name = name}
            IN  name # <<>> =>
                    /\ Cardinality(entries) = 1
                    /\ name \in DOMAIN last.result.value[k]
                    /\ last.result.value[k][name].from = first
                    /\ \E n \in DOMAIN plugins[t[1]].dirs[k] :
                           /\ IsSymlink(plugins[t[1]].dirs[k][n])
                           /\ plugins[t[1]].dirs[k][n].target
                                  = RegLink(k, last.result.value[k][name].dest).target

====
